---- MODULE Spec2Model ----
(***************************************************************************)
(* A model of ClipySave's library module clipysave.py: the platform        *)
(* classifier, the download facade, batch downloads, the history log and   *)
(* the configuration store.  Strings that the code inspects (URLs, regular *)
(* expressions, error messages) are sequences of one-character strings.    *)
(***************************************************************************)
EXTENDS Integers, Sequences, FiniteSets, TLC

(* The field names of the records below.  TLC orders the fields of a       *)
(* record by the first occurrence of their names, so they are named here   *)
(* once, alphabetically, and every record lists its fields in this order.  *)
FieldNames ==
    DOMAIN [ arg |-> 0, buffer |-> 0, called |-> 0, called_in |-> 0,
             calls |-> 0, changed |-> 0, code |-> 0,
             concurrent_downloads |-> 0, config |-> 0, config_arg |-> 0,
             config_path |-> 0, cookiefile |-> 0, cookies_file |-> 0,
             default_config |-> 0, default_quality |-> 0, doc |-> 0,
             download_path |-> 0, download_time |-> 0,
             download_video_thumbnails |-> 0, download_videos |-> 0,
             downloaded |-> 0, downloaded_bytes |-> 0, embed_metadata |-> 0,
             embed_thumbnail |-> 0, ended_in |-> 0, engine_dir |-> 0,
             entries |-> 0, error |-> 0, eta |-> 0, exc |-> 0, exists |-> 0,
             extra |-> 0, file |-> 0, filename |-> 0, files |-> 0,
             format |-> 0, forwarded |-> 0, gen |-> 0, has_callback |-> 0,
             instagram |-> 0, interrupted |-> 0, items |-> 0, k |-> 0,
             keys |-> 0, kind |-> 0, limit |-> 0, m |-> 0, max_quality |-> 0,
             merge_output_format |-> 0, msg |-> 0, none |-> 0, op |-> 0,
             options |-> 0, original_dir |-> 0, out |-> 0, output_dir |-> 0,
             output_template |-> 0, partial |-> 0, path |-> 0, pc |-> 0,
             percentage |-> 0, platform |-> 0, post |-> 0, pre |-> 0,
             process |-> 0, proxy |-> 0, quality |-> 0, raised |-> 0,
             rate_limit |-> 0, referer |-> 0, result |-> 0, ret |-> 0,
             retries |-> 0, save_metadata |-> 0, seen |-> 0,
             session_file |-> 0, shortcode |-> 0, size |-> 0,
             socket_timeout |-> 0, source |-> 0, speed |-> 0, state |-> 0,
             status |-> 0, subtitles |-> 0, subtitles_languages |-> 0,
             success |-> 0, t |-> 0, temp_path |-> 0, text |-> 0,
             threads |-> 0, timeout |-> 0, timestamp |-> 0, title |-> 0,
             total |-> 0, total_bytes |-> 0, total_bytes_estimate |-> 0,
             total_size |-> 0, url |-> 0, user_agent |-> 0, username |-> 0,
             v |-> 0, value |-> 0, via |-> 0, vk |-> 0, youtube |-> 0 ]

VARIABLES
    url,            \* download: the URL argument, built fragment by fragment
    nfrags,         \* number of fragments url is made of
    platform,       \* last value returned by detect_platform, or "none"
    result,         \* DownloadResult returned by download, or NoResult
    raised,         \* download propagated an exception to its caller
    engineCalls,    \* number of external engine invocations made by download
    engine,         \* what the engine did when download invoked it, or NoEngine
    concurrent_downloads, \* Configuration value 'concurrent_downloads'
    urls,           \* download_multiple: the urls argument
    max_concurrent, \* download_multiple: the max_concurrent argument
    has_callback,   \* download_multiple: a progress_callback was supplied
    mpc,            \* download_multiple: idle, concurrent, sequential, returned, raised
    tasks,          \* per input index: pending, running, done, yielded and the outcome
    results,        \* download_multiple: the results list
    history_file,   \* download_history.json: absent, corrupt, or a list of entries
    appended,       \* number of save_to_history calls made so far
    returned,       \* value returned by get_download_history, when it was the last call
    cfg_file,       \* config.json: absent, corrupt, or a JSON document
    default_config, \* Config.default_config of the current Config object
    config,         \* Config.config of the current Config object
    saved_doc,      \* the document last handed to save_config
    cfg_pc,         \* none, loaded, saved, reloaded (loaded from a saved document)
    shared,         \* top-level keys whose dict config shares with default_config
    set_key,        \* Config.set: the key argument, split at the dots
    set_value,      \* Config.set: the value argument
    set_pc,         \* Config.set: none, returned, raised
    got,            \* value returned by Config.get(set_key), when it was the last call
    info,           \* what get_video_info did, when it was called
    cwd,            \* the working directory of the process
    ig_mode,        \* none, single (download), pool (download_multiple), pool_returned
    ig,             \* per _download_instagram call in progress: its position and locals
    console,        \* the console script's download_media call: its position and locals
    cli,            \* main_cli: its arguments, position, and the downloader it built
    cookie_files,   \* per platform: the text of cookies/<platform>_cookies.txt, or absent
    ck,             \* set_cookies: its arguments, and how it ended
    opt,            \* the options bag last built for the engine, and for what
    relay,          \* the progress hook: engine events seen, events forwarded
    setters,        \* concurrent Config.set calls: each thread's position and locals
    downloader      \* VideoDownloader(config): the argument, and how __init__ ended

dlVars == <<url, nfrags, platform, result, raised, engineCalls, engine>>
manyVars == <<concurrent_downloads, urls, max_concurrent, has_callback, mpc,
              tasks, results>>
histVars == <<history_file, appended, returned>>
cfgVars == <<cfg_file, default_config, config, saved_doc, cfg_pc, shared>>
setVars == <<set_key, set_value, set_pc, got>>
infoVars == <<info>>
igVars == <<cwd, ig_mode, ig>>
consoleVars == <<console>>
cliVars == <<cli>>
cookieVars == <<cookie_files, ck>>
optVars == <<opt>>
relayVars == <<relay>>
raceVars == <<setters>>
ctorVars == <<downloader>>
laterVars == <<optVars, relayVars, raceVars, ctorVars>>
(* the state of the operations modelled further down *)
otherVars == <<setVars, infoVars, igVars, consoleVars, cliVars, cookieVars,
               laterVars>>
vars == <<dlVars, manyVars, histVars, cfgVars, otherVars>>

(* what the actions of one part leave alone: everything but its own state *)
exceptCfgVars == <<dlVars, manyVars, histVars, otherVars>>
exceptSetVars == <<dlVars, manyVars, histVars, infoVars, igVars, consoleVars,
                   cliVars, cookieVars, laterVars>>
exceptInfoVars == <<dlVars, manyVars, histVars, cfgVars, setVars, igVars,
                    consoleVars, cliVars, cookieVars, laterVars>>
exceptIgVars == <<dlVars, manyVars, histVars, cfgVars, setVars, infoVars,
                  consoleVars, cliVars, cookieVars, laterVars>>
exceptConsoleVars == <<dlVars, manyVars, histVars, cfgVars, setVars, infoVars,
                       igVars, cliVars, cookieVars, laterVars>>
exceptCliVars == <<dlVars, manyVars, histVars, setVars, infoVars, igVars,
                   consoleVars, cookieVars, laterVars>>
exceptCookieVars == <<dlVars, manyVars, histVars, setVars, infoVars, igVars,
                      consoleVars, cliVars, laterVars>>
exceptOptVars ==
    <<dlVars, manyVars, histVars, setVars, infoVars, igVars,
      consoleVars, cliVars, relayVars, raceVars, ctorVars>>
exceptRelayVars ==
    <<dlVars, manyVars, histVars, setVars, infoVars, igVars,
      consoleVars, cliVars, cfgVars, cookieVars, optVars, raceVars,
      ctorVars>>
exceptRaceVars ==
    <<dlVars, manyVars, histVars, setVars, infoVars, igVars,
      consoleVars, cliVars, cookieVars, optVars, relayVars, ctorVars>>
exceptCtorVars ==
    <<dlVars, manyVars, histVars, setVars, infoVars, igVars,
      consoleVars, cliVars, cookieVars, optVars, relayVars, raceVars>>

-----------------------------------------------------------------------------
(* Bounds *)
MaxFrags == 2

-----------------------------------------------------------------------------
(* Platform enum *)
YOUTUBE == "youtube"
INSTAGRAM == "instagram"
VK == "vk"
UNKNOWN == "unknown"

(* str.lower() on the ASCII letters the inputs use *)
LowerChar(c) ==
    CASE c = "A" -> "a" [] c = "B" -> "b" [] c = "C" -> "c" [] c = "D" -> "d"
      [] c = "E" -> "e" [] c = "F" -> "f" [] c = "G" -> "g" [] c = "H" -> "h"
      [] c = "I" -> "i" [] c = "J" -> "j" [] c = "K" -> "k" [] c = "L" -> "l"
      [] c = "M" -> "m" [] c = "N" -> "n" [] c = "O" -> "o" [] c = "P" -> "p"
      [] c = "Q" -> "q" [] c = "R" -> "r" [] c = "S" -> "s" [] c = "T" -> "t"
      [] c = "U" -> "u" [] c = "V" -> "v" [] c = "W" -> "w" [] c = "X" -> "x"
      [] c = "Y" -> "y" [] c = "Z" -> "z" [] OTHER -> c

Lower(s) == [i \in 1..Len(s) |-> LowerChar(s[i])]

(* A regular expression of the code is a literal, or literal .*? literal  *)
(* (post = <<>> for a plain literal).                                      *)
Pat(pre, post) == [post |-> post, pre |-> pre]
Lit(pre) == Pat(pre, <<>>)

(* the literal lit occurs in s starting at position i *)
LitAt(lit, s, i) ==
    /\ i >= 1
    /\ i + Len(lit) - 1 <= Len(s)
    /\ \A k \in 1..Len(lit) : s[i + k - 1] = lit[k]

(* re.search(p, s) is not None; "." does not match a newline *)
Search(p, s) ==
    \E i \in 1..(Len(s) + 1) :
        /\ LitAt(p.pre, s, i)
        /\ \/ p.post = <<>>
           \/ \E j \in (i + Len(p.pre))..(Len(s) + 1) :
                /\ LitAt(p.post, s, j)
                /\ \A k \in (i + Len(p.pre))..(j - 1) : s[k] # "\n"

youtube_patterns == <<
    Lit(<<"y","o","u","t","u","b","e",".","c","o","m">>),
    Lit(<<"y","o","u","t","u",".","b","e">>),
    Lit(<<"m",".","y","o","u","t","u","b","e",".","c","o","m">>),
    Lit(<<"y","o","u","t","u","b","e",".","c","o","m","/","s","h","o","r","t","s","/">>),
    Lit(<<"m","u","s","i","c",".","y","o","u","t","u","b","e",".","c","o","m">>) >>

instagram_patterns == <<
    Lit(<<"i","n","s","t","a","g","r","a","m",".","c","o","m","/","p","/">>),
    Lit(<<"i","n","s","t","a","g","r","a","m",".","c","o","m","/","r","e","e","l","/">>),
    Lit(<<"i","n","s","t","a","g","r","a","m",".","c","o","m","/","t","v","/">>),
    Lit(<<"i","n","s","t","a","g","r",".","a","m">>) >>

vk_patterns == <<
    Lit(<<"v","k",".","c","o","m","/","v","i","d","e","o">>),
    Pat(<<"v","k",".","c","o","m","/","w","a","l","l">>, <<"z","=","v","i","d","e","o">>),
    Lit(<<"m",".","v","k",".","c","o","m","/","v","i","d","e","o">>),
    Lit(<<"v","k","v","i","d","e","o",".","r","u","/","v","i","d","e","o">>),
    Lit(<<"v","k",".","r","u","/","v","i","d","e","o">>) >>

(* "for pattern in patterns: if re.search(pattern, s): return ..." *)
AnyMatch(patterns, s) == \E n \in 1..Len(patterns) : Search(patterns[n], s)

(* the two first loops of detect_platform exchanged *)
detect_platform_InstagramFirst(u) ==
    LET url_lower == Lower(u) IN
    IF AnyMatch(instagram_patterns, url_lower) THEN INSTAGRAM
    ELSE IF AnyMatch(youtube_patterns, url_lower) THEN YOUTUBE
    ELSE IF AnyMatch(vk_patterns, url_lower) THEN VK
    ELSE UNKNOWN

detect_platform(u) ==
    LET url_lower == Lower(u) IN
    IF AnyMatch(youtube_patterns, url_lower) THEN YOUTUBE
    ELSE IF AnyMatch(instagram_patterns, url_lower) THEN INSTAGRAM
    ELSE IF AnyMatch(vk_patterns, url_lower) THEN VK
    ELSE UNKNOWN

-----------------------------------------------------------------------------
(* DownloadResult and the per-platform download routines *)

NoneStr == [msg |-> <<>>, none |-> TRUE]
Str(s) == [msg |-> s, none |-> FALSE]

NoResult == [kind |-> "no_result"]

DownloadResult(success, plat, u, title, files, error) ==
    [error |-> error, files |-> files, kind |-> "DownloadResult",
     platform |-> plat, success |-> success, title |-> title,
     total_size |-> 0, url |-> u]

(* What a routine does: return a result or propagate an exception (whose  *)
(* str() is msg), and how many times it invoked an external engine on the *)
(* way.                                                                    *)
Returns(r, calls) ==
    [calls |-> calls, msg |-> <<>>, raised |-> FALSE, result |-> r]
Raises(msg, calls) ==
    [calls |-> calls, msg |-> msg, raised |-> TRUE, result |-> NoResult]

(* A file the engine reports: its path, whether it is on disk when download *)
(* returns, and its size.                                                   *)
File(path, exists, size) == [exists |-> exists, path |-> path, size |-> size]

FileLists ==
    { <<>>,
      << File("a.mp4", TRUE, 3) >>,
      << File("a.mp4", FALSE, 3) >>,
      << File("a.mp4", TRUE, 3), File("a.jpg", FALSE, 5) >> }

(* The environment of one download call: whether the output directory can  *)
(* be created, and what the external engine does: it returns, or raises an *)
(* exception whose str() is msg, possibly the empty string ("exc": a       *)
(* subclass of Exception; "base": one that is not, such as the             *)
(* KeyboardInterrupt delivered while the engine runs).                     *)
NoEngine == [files |-> <<>>, kind |-> "none", msg |-> <<>>]

EngineOutcomes ==
    { [files |-> fl, kind |-> "ok", msg |-> <<>>] : fl \in FileLists }
    \cup { [files |-> <<>>, kind |-> "exc", msg |-> m] : m \in { <<>>, <<"b","o","o","m">> } }
    \cup { [files |-> <<>>, kind |-> "base", msg |-> <<>>] }
    \cup { [files |-> <<>>, kind |-> "mkdir", msg |-> <<"P","e","r","m","i","s","s","i","o","n"," ","d","e","n","i","e","d">>] }

(* _download_vk without its try/except around the engine call *)
_download_vk_NoCatch(u, o) ==
    IF o.kind = "mkdir" THEN Raises(o.msg, 0)
    ELSE IF o.kind \in { "base", "exc" } THEN Raises(o.msg, 1)
    ELSE Returns(DownloadResult(TRUE, VK, u, <<"U","n","k","n","o","w","n">>, o.files, NoneStr), 1)

_download_youtube(u, o) ==
    IF o.kind = "mkdir" THEN Raises(o.msg, 0)
    ELSE IF o.kind = "base" THEN Raises(o.msg, 1)
    ELSE IF o.kind = "exc"
         THEN Returns(DownloadResult(FALSE, YOUTUBE, u, <<>>, <<>>, Str(o.msg)), 1)
         ELSE Returns(DownloadResult(TRUE, YOUTUBE, u, <<"U","n","k","n","o","w","n">>, o.files, NoneStr), 1)

_download_vk(u, o) ==
    IF o.kind = "mkdir" THEN Raises(o.msg, 0)
    ELSE IF o.kind = "base" THEN Raises(o.msg, 1)
    ELSE IF o.kind = "exc"
         THEN Returns(DownloadResult(FALSE, VK, u, <<>>, <<>>, Str(o.msg)), 1)
         ELSE Returns(DownloadResult(TRUE, VK, u, <<"U","n","k","n","o","w","n">>, o.files, NoneStr), 1)

(* re.search(lit + "([^/?]+)", s): the leftmost place where lit is followed *)
(* by a character other than "/" and "?"; 0 when there is none.             *)
GroupChar(c) == c # "/" /\ c # "?"

CaptureStart(lit, s) ==
    LET ok == { i \in 1..Len(s) :
                  /\ LitAt(lit, s, i)
                  /\ i + Len(lit) <= Len(s)
                  /\ GroupChar(s[i + Len(lit)]) }
    IN IF ok = {} THEN 0
       ELSE (CHOOSE i \in ok : \A j \in ok : i <= j) + Len(lit)

(* group 1: the longest run of [^/?] characters from position b *)
CaptureFrom(s, b) ==
    LET e == CHOOSE e \in b..Len(s) :
                /\ \A k \in b..e : GroupChar(s[k])
                /\ (e = Len(s) \/ ~GroupChar(s[e + 1]))
    IN SubSeq(s, b, e)

shortcode_patterns == <<
    <<"i","n","s","t","a","g","r","a","m",".","c","o","m","/","p","/">>,
    <<"i","n","s","t","a","g","r","a","m",".","c","o","m","/","r","e","e","l","/">>,
    <<"i","n","s","t","a","g","r","a","m",".","c","o","m","/","t","v","/">> >>

(* <<>> stands for None: a captured group is never empty *)
_extract_instagram_shortcode(u) ==
    LET hits == { n \in 1..Len(shortcode_patterns) :
                    CaptureStart(shortcode_patterns[n], u) # 0 }
    IN IF hits = {} THEN <<>>
       ELSE LET n == CHOOSE n \in hits : \A m \in hits : n <= m
            IN CaptureFrom(u, CaptureStart(shortcode_patterns[n], u))

_download_instagram(u, o) ==
    LET shortcode == _extract_instagram_shortcode(u) IN
    IF o.kind = "mkdir"
    THEN Returns(DownloadResult(FALSE, INSTAGRAM, u, <<>>, <<>>, Str(o.msg)), 0)
    ELSE IF shortcode = <<>>
    THEN Returns(DownloadResult(FALSE, INSTAGRAM, u, <<>>, <<>>,
                                Str(<<"I","n","v","a","l","i","d"," ","I","n","s","t","a","g","r","a","m"," ","U","R","L",":"," ">> \o u)), 0)
    ELSE IF o.kind = "base" THEN Raises(o.msg, 1)
    ELSE IF o.kind = "exc"
    THEN Returns(DownloadResult(FALSE, INSTAGRAM, u, <<>>, <<>>, Str(o.msg)), 1)
    ELSE Returns(DownloadResult(TRUE, INSTAGRAM, u, <<"I","n","s","t","a","g","r","a","m","_">> \o shortcode,
                                o.files, NoneStr), 1)

RECURSIVE SizeOnDisk(_)
SizeOnDisk(files) ==
    IF files = <<>> THEN 0
    ELSE (IF Head(files).exists THEN Head(files).size ELSE 0)
         + SizeOnDisk(Tail(files))

(* download raising on an unsupported platform, as get_video_info does *)
download_RaisesOnUnknown(u, o) ==
    LET plat == detect_platform(u)
        r == IF plat = YOUTUBE THEN _download_youtube(u, o)
             ELSE IF plat = INSTAGRAM THEN _download_instagram(u, o)
             ELSE IF plat = VK THEN _download_vk(u, o)
             ELSE Raises(<<"U","n","s","u","p","p","o","r","t","e","d">>, 0)
    IN IF r.raised THEN r
       ELSE [r EXCEPT !.result.total_size = @ + SizeOnDisk(r.result.files)]

(* download adding up st_size without asking file.exists() first *)
download_SizesUnchecked(u, o) ==
    LET plat == detect_platform(u)
        r == IF plat = YOUTUBE THEN _download_youtube(u, o)
             ELSE IF plat = INSTAGRAM THEN _download_instagram(u, o)
             ELSE IF plat = VK THEN _download_vk(u, o)
             ELSE Returns(DownloadResult(FALSE, UNKNOWN, u, <<>>, <<>>,
                                         Str(<<"U","n","s","u","p","p","o","r","t","e","d"," ","p","l","a","t","f","o","r","m",":"," ">> \o u)), 0)
        all == [i \in DOMAIN r.result.files |->
                  [r.result.files[i] EXCEPT !.exists = TRUE]]
    IN IF r.raised THEN r
       ELSE [r EXCEPT !.result.total_size = @ + SizeOnDisk(all)]

download(u, o) ==
    LET plat == detect_platform(u)
        r == IF plat = YOUTUBE THEN _download_youtube(u, o)
             ELSE IF plat = INSTAGRAM THEN _download_instagram(u, o)
             ELSE IF plat = VK THEN _download_vk(u, o)
             ELSE Returns(DownloadResult(FALSE, UNKNOWN, u, <<>>, <<>>,
                                         Str(<<"U","n","s","u","p","p","o","r","t","e","d"," ","p","l","a","t","f","o","r","m",":"," ">> \o u)), 0)
    IN IF r.raised THEN r
       ELSE [r EXCEPT !.result.total_size = @ + SizeOnDisk(r.result.files)]

(* get_video_info: the metadata probe.  o is what the engine's probe does: *)
(* it returns, or raises an exception of class o.exc, which the _get_*_info *)
(* routines log and re-raise.                                              *)
VideoInfo(plat, u, calls) ==
    [called |-> TRUE, calls |-> calls, exc |-> "", platform |-> plat,
     raised |-> FALSE, url |-> u]

InfoRaises(exc, u, calls) ==
    [called |-> TRUE, calls |-> calls, exc |-> exc, platform |-> "none",
     raised |-> TRUE, url |-> u]

InfoOutcomes ==
    { [exc |-> "", kind |-> "ok"], [exc |-> "DownloadError", kind |-> "exc"] }

_get_youtube_info(u, o) ==
    IF o.kind = "exc" THEN InfoRaises(o.exc, u, 1) ELSE VideoInfo(YOUTUBE, u, 1)

_get_instagram_info(u, o) ==
    IF _extract_instagram_shortcode(u) = <<>> THEN InfoRaises("ValueError", u, 0)
    ELSE IF o.kind = "exc" THEN InfoRaises(o.exc, u, 1)
    ELSE VideoInfo(INSTAGRAM, u, 1)

_get_vk_info(u, o) ==
    IF o.kind = "exc" THEN InfoRaises(o.exc, u, 1) ELSE VideoInfo(VK, u, 1)

(* get_video_info handing every URL it cannot classify to yt-dlp *)
get_video_info_ProbesUnknown(u, o) ==
    LET plat == detect_platform(u) IN
    IF plat = YOUTUBE THEN _get_youtube_info(u, o)
    ELSE IF plat = INSTAGRAM THEN _get_instagram_info(u, o)
    ELSE _get_vk_info(u, o)

get_video_info(u, o) ==
    LET plat == detect_platform(u) IN
    IF plat = YOUTUBE THEN _get_youtube_info(u, o)
    ELSE IF plat = INSTAGRAM THEN _get_instagram_info(u, o)
    ELSE IF plat = VK THEN _get_vk_info(u, o)
    ELSE InfoRaises("ValueError", u, 0)

(* Python's built-in exception hierarchy below LookupError *)
LookupErrorClasses == { "LookupError", "IndexError", "KeyError" }

-----------------------------------------------------------------------------
(* Single download: the caller's URL is any concatenation of at most       *)
(* MaxFrags of these fragments.                                            *)

Fragments == {
    <<"h","t","t","p","s",":","/","/">>,
    <<"y","o","u","t","u",".","b","e","/","Q","P","Q","H","6","d","P","4","0","Y","M">>,
    <<"Y","o","u","T","u","b","e",".","c","o","m","/","w","a","t","c","h">>,
    <<"i","n","s","t","a","g","r","a","m",".","c","o","m","/","r","e","e","l","/","A","B","C","1","2","3","/">>,
    <<"i","n","s","t","a","g","r","a","m",".","c","o","m","/","p","/">>,
    <<"I","n","s","t","a","g","r","a","m",".","c","o","m","/","t","v","/","Q">>,
    <<"i","n","s","t","a","g","r",".","a","m","/">>,
    <<"v","k",".","c","o","m","/","v","i","d","e","o">>,
    <<"v","k",".","c","o","m","/","w","a","l","l">>,
    <<"z","=","v","i","d","e","o">>,
    <<"v","k","v","i","d","e","o",".","r","u","/","v","i","d","e","o","-","1","1","1","7","5","8","2","4","6","_","4","5","6","2","5","9","2","6","8">>,
    <<"e","x","a","m","p","l","e",".","c","o","m","/","x">>,
    <<"\\","n">> }

DlIdle ==
    /\ url = <<>>
    /\ nfrags = 0
    /\ platform = "none"
    /\ result = NoResult
    /\ raised = FALSE
    /\ engineCalls = 0
    /\ engine = NoEngine

AddFragment(f) ==
    /\ nfrags < MaxFrags
    /\ platform = "none"
    /\ result = NoResult
    /\ ~raised
    /\ ~info.called
    /\ url' = url \o f
    /\ nfrags' = nfrags + 1
    /\ UNCHANGED <<otherVars, platform, result, raised, engineCalls, engine,
                   manyVars, histVars, cfgVars>>

DetectPlatform ==
    /\ platform = "none"
    /\ result = NoResult
    /\ ~raised
    /\ platform' = detect_platform(url)
    /\ UNCHANGED <<otherVars, url, nfrags, result, raised, engineCalls, engine,
                   manyVars, histVars, cfgVars>>

Download(o) ==
    /\ result = NoResult
    /\ ~raised
    /\ ~info.called
    /\ LET r == download(url, o) IN
         /\ result' = r.result
         /\ raised' = r.raised
         /\ engineCalls' = engineCalls + r.calls
         /\ engine' = IF r.calls > 0 THEN o ELSE NoEngine
    /\ UNCHANGED <<otherVars, url, nfrags, platform, manyVars, histVars, cfgVars>>

ManyIdle ==
    /\ urls = <<>>
    /\ max_concurrent = 1
    /\ has_callback = FALSE
    /\ mpc = "idle"
    /\ tasks = <<>>
    /\ results = <<>>

HistFile(state, entries) == [entries |-> entries, state |-> state]
NoReturn == [called |-> FALSE, limit |-> 0, value |-> <<>>]

HistIdle ==
    /\ history_file = HistFile("absent", <<>>)
    /\ appended = 0
    /\ returned = NoReturn

(* a Python or JSON value: its type tag, its text when it is a scalar or a *)
(* list, its items when it is a mapping                                    *)
EmptyMap == [k \in {} |-> 0]
Value(t, v, m) == [m |-> m, t |-> t, v |-> v]

CfgFile(state, doc) == [doc |-> doc, state |-> state]

CfgIdle ==
    /\ cfg_file = CfgFile("absent", Value("null", "null", EmptyMap))
    /\ default_config = EmptyMap
    /\ config = EmptyMap
    /\ saved_doc = EmptyMap
    /\ cfg_pc = "none"
    /\ shared = {}

NoGet == [called |-> FALSE, value |-> Value("none", "None", EmptyMap)]

SetIdle ==
    /\ set_key = <<>>
    /\ set_value = Value("none", "None", EmptyMap)
    /\ set_pc = "none"
    /\ got = NoGet

(* what get_video_info did: returned a VideoInfo for platform and url, or  *)
(* raised an exception of class exc, after calls engine invocations        *)
NoInfo ==
    [called |-> FALSE, calls |-> 0, exc |-> "", platform |-> "none",
     raised |-> FALSE, url |-> <<>>]

InfoIdle == info = NoInfo

(* no Instagram download in progress; the process is in its start          *)
(* directory                                                               *)
IgIdle ==
    /\ cwd = "/home"
    /\ ig_mode = "none"
    /\ ig = <<>>

(* the console script before download_media is called: no URL, no child    *)
(* process, nothing written, nothing returned                              *)
NoConsole ==
    [code |-> 0, interrupted |-> FALSE, partial |-> FALSE, pc |-> "idle",
     process |-> "none", ret |-> "none", source |-> "none", url |-> <<>>]

ConsoleIdle == console = NoConsole

(* main_cli before argument parsing *)
NoCli ==
    [config_arg |-> "", config_path |-> "", exc |-> "", op |-> "none",
     pc |-> "idle"]

CliIdle == cli = NoCli

(* no cookie file written, set_cookies not called *)
PlatformValues == { "youtube", "instagram", "vk", "unknown" }

NoCookieFile == [state |-> "absent", text |-> <<>>]

NoCookieCall ==
    [arg |-> [exists |-> FALSE, items |-> <<>>, kind |-> "none", text |-> <<>>],
     exc |-> "", pc |-> "idle", platform |-> "none"]

CookieIdle ==
    /\ cookie_files = [p \in PlatformValues |-> NoCookieFile]
    /\ ck = NoCookieCall

(* no options bag built yet *)
NoOptions ==
    [op |-> "none", options |-> EmptyMap, pc |-> "idle", platform |-> "none",
     quality |-> [kind |-> "none", value |-> "", via |-> "none"]]

OptIdle == opt = NoOptions

(* the progress hook before the engine reported anything *)
NoRelay == [forwarded |-> <<>>, has_callback |-> FALSE, pc |-> "idle", seen |-> 0]

RelayIdle == relay = NoRelay

(* no thread is inside Config.set; gen counts the dicts set has created    *)
(* under the key 'extra'                                                   *)
Threads == { "t1", "t2" }

NoSetter ==
    [buffer |-> Value("null", "null", EmptyMap), gen |-> 0, keys |-> <<>>,
     pc |-> "idle", value |-> Value("none", "None", EmptyMap)]

NoSetters == [gen |-> 0, threads |-> [i \in Threads |-> NoSetter]]

RaceIdle == setters = NoSetters

(* no VideoDownloader constructed *)
NoDownloader ==
    [arg |-> EmptyMap, exc |-> "", pc |-> "none",
     pre |-> CfgFile("absent", Value("null", "null", EmptyMap))]

CtorIdle == downloader = NoDownloader

OtherIdle ==
    /\ SetIdle /\ InfoIdle /\ IgIdle /\ ConsoleIdle /\ CliIdle /\ CookieIdle
    /\ OptIdle /\ RelayIdle /\ RaceIdle /\ CtorIdle

GetVideoInfo(o) ==
    /\ result = NoResult
    /\ ~raised
    /\ ~info.called
    /\ info' = get_video_info(url, o)
    /\ UNCHANGED exceptInfoVars

Init ==
    /\ DlIdle
    /\ concurrent_downloads = 1
    /\ ManyIdle
    /\ HistIdle
    /\ CfgIdle
    /\ OtherIdle

Next ==
    \/ \E f \in Fragments : AddFragment(f)
    \/ DetectPlatform
    \/ \E o \in EngineOutcomes : Download(o)
    \/ \E o \in InfoOutcomes : GetVideoInfo(o)

Spec == Init /\ [][Next]_vars

-----------------------------------------------------------------------------
(* Properties of detect_platform and download, checked under Spec *)

MatchesYouTube(s) == \E n \in DOMAIN youtube_patterns : Search(youtube_patterns[n], s)
MatchesInstagram(s) == \E n \in DOMAIN instagram_patterns : Search(instagram_patterns[n], s)
MatchesVK(s) == \E n \in DOMAIN vk_patterns : Search(vk_patterns[n], s)

ExampleVK == <<"h","t","t","p","s",":","/","/","v","k","v","i","d","e","o",".","r","u","/","v","i","d","e","o","-","1","1","1","7","5","8","2","4","6","_","4","5","6","2","5","9","2","6","8">>
ExampleYouTube == <<"h","t","t","p","s",":","/","/","y","o","u","t","u",".","b","e","/","Q","P","Q","H","6","d","P","4","0","Y","M">>
ExampleInstagram == <<"h","t","t","p","s",":","/","/","i","n","s","t","a","g","r","a","m",".","c","o","m","/","r","e","e","l","/","A","B","C","1","2","3","/">>
ExampleUnknown == <<"h","t","t","p","s",":","/","/","e","x","a","m","p","l","e",".","c","o","m","/","x">>

(* C1: detect_platform returns the first family, in the order YouTube,     *)
(* Instagram, VK, with a pattern matching the lower-cased URL, and Unknown *)
(* when none matches; a URL matching a YouTube pattern is YouTube whatever *)
(* else occurs in it; the four example URLs are VK, YouTube, Instagram and *)
(* Unknown.                                                                *)
C1_FirstFamilyWins ==
    platform # "none" =>
        LET s == Lower(url) IN
        /\ MatchesYouTube(s) => platform = YOUTUBE
        /\ (~MatchesYouTube(s) /\ MatchesInstagram(s)) => platform = INSTAGRAM
        /\ (~MatchesYouTube(s) /\ ~MatchesInstagram(s) /\ MatchesVK(s))
               => platform = VK
        /\ (~MatchesYouTube(s) /\ ~MatchesInstagram(s) /\ ~MatchesVK(s))
               => platform = UNKNOWN
        /\ url = ExampleVK => platform = VK
        /\ url = ExampleYouTube => platform = YOUTUBE
        /\ url = ExampleInstagram => platform = INSTAGRAM
        /\ url = ExampleUnknown => platform = UNKNOWN

(* a URL holding a YouTube pattern and an Instagram or VK pattern has been *)
(* classified                                                              *)
C1_Witness ==
    /\ platform = YOUTUBE
    /\ MatchesInstagram(Lower(url)) \/ MatchesVK(Lower(url))

(* C2: download of a URL classified Unknown does not raise and invokes no  *)
(* engine; it returns a failed result with platform Unknown, the input     *)
(* URL, no files and a non-empty error.                                    *)
C2_UnknownIsFailedResult ==
    (detect_platform(url) = UNKNOWN /\ (raised \/ result # NoResult)) =>
        /\ ~raised
        /\ engineCalls = 0
        /\ result.success = FALSE
        /\ result.platform = UNKNOWN
        /\ result.url = url
        /\ result.files = <<>>
        /\ ~result.error.none
        /\ Len(result.error.msg) > 0

C2_Witness ==
    /\ result # NoResult
    /\ result.platform = UNKNOWN
    /\ url = ExampleUnknown

(* C3: every DownloadResult returned by download has a non-empty error     *)
(* string when success is false and error None when success is true.       *)
C3_FailedHasNonEmptyError ==
    result # NoResult =>
        /\ result.success = FALSE =>
               (~result.error.none /\ Len(result.error.msg) > 0)
        /\ result.success = TRUE => result.error.none

(* C13 as stated: get_video_info on a URL classified Unknown fails with a  *)
(* LookupError-class error and does not invoke any external engine.        *)
C13_UnknownIsLookupError ==
    (info.called /\ detect_platform(info.url) = UNKNOWN) =>
        /\ info.raised
        /\ info.exc \in LookupErrorClasses
        /\ info.calls = 0

(* C13 as amended: get_video_info on a URL classified Unknown raises       *)
(* ValueError and does not invoke any external engine.                     *)
C13_UnknownIsValueError ==
    (info.called /\ detect_platform(info.url) = UNKNOWN) =>
        /\ info.raised
        /\ info.exc = "ValueError"
        /\ info.calls = 0

C13_Witness ==
    /\ info.called
    /\ info.url = ExampleUnknown
    /\ info.raised

(* the error taxonomy tags: UnsupportedPlatform, InvalidURL, ...           *)
TaxonomyTags ==
    { <<"U","n","s","u","p","p","o","r","t","e","d","P","l","a","t","f","o","r","m">>,
      <<"I","n","v","a","l","i","d","U","R","L">>,
      <<"A","u","t","h","e","n","t","i","c","a","t","i","o","n","R","e","q","u","i","r","e","d">>,
      <<"C","o","n","t","e","n","t","U","n","a","v","a","i","l","a","b","l","e">>,
      <<"T","r","a","n","s","i","e","n","t","I","O">>,
      <<"F","a","t","a","l">> }

(* lit occurs in s *)
Contains(s, lit) == \E i \in 1..(Len(s) + 1) : LitAt(lit, s, i)

(* the engine was invoked for a supported platform and raised *)
EngineRaised ==
    /\ engine.kind \in { "base", "exc" }
    /\ detect_platform(url) \in { YOUTUBE, INSTAGRAM, VK }

(* C14 as stated: for a URL classified YouTube, VK or Instagram, any       *)
(* exception raised by the external engine during download is not          *)
(* propagated to the caller: download returns a failed DownloadResult      *)
(* whose platform is the classified platform, whose url is the input URL,  *)
(* and whose error carries the engine's message verbatim together with a   *)
(* taxonomy tag.                                                           *)
C14_EngineErrorTagged ==
    EngineRaised =>
        /\ ~raised
        /\ result # NoResult
        /\ result.success = FALSE
        /\ result.platform = detect_platform(url)
        /\ result.url = url
        /\ ~result.error.none
        /\ Contains(result.error.msg, engine.msg)
        /\ \E tag \in TaxonomyTags : Contains(result.error.msg, tag)

(* C14 as amended: an exception derived from Exception that the engine     *)
(* raises during download is not propagated: download returns a failed     *)
(* DownloadResult with the classified platform, the input URL, and an      *)
(* error that is exactly the engine's message, without a taxonomy tag.     *)
C14_EngineErrorVerbatim ==
    (EngineRaised /\ engine.kind = "exc") =>
        /\ ~raised
        /\ result # NoResult
        /\ result.success = FALSE
        /\ result.platform = detect_platform(url)
        /\ result.url = url
        /\ result.error = Str(engine.msg)

C14_Witness ==
    /\ EngineRaised
    /\ engine.kind = "exc"
    /\ engine.msg = <<"b","o","o","m">>
    /\ url = ExampleVK
    /\ result # NoResult
    /\ result.error = Str(<<"b","o","o","m">>)

(* the sum of the sizes of the files at the positions in S *)
RECURSIVE SumSizes(_, _)
SumSizes(files, S) ==
    IF S = {} THEN 0
    ELSE LET i == CHOOSE i \in S : TRUE
         IN files[i].size + SumSizes(files, S \ { i })

(* C17: for every result returned by download, total_size equals the sum   *)
(* of the sizes of exactly those files listed in result.files that exist   *)
(* on disk at return time; listed files that no longer exist contribute 0  *)
(* and cause no error, and a failed result has total_size 0.               *)
C17_TotalSizeOfExistingFiles ==
    /\ result # NoResult =>
          /\ result.total_size =
                 SumSizes(result.files,
                          { i \in DOMAIN result.files : result.files[i].exists })
          /\ result.success = FALSE => result.total_size = 0
    /\ (engine.kind = "ok" /\ \E i \in DOMAIN engine.files : ~engine.files[i].exists)
          => ~raised /\ result # NoResult

(* a result that lists a file on disk and a file that is gone *)
C17_Witness ==
    /\ result # NoResult
    /\ result.success
    /\ result.files = << File("a.mp4", TRUE, 3), File("a.jpg", FALSE, 5) >>
    /\ result.total_size = 3

-----------------------------------------------------------------------------
(* download_multiple *)

MaxUrls == 3

(* the max_concurrent arguments and the 'concurrent_downloads' values tried *)
MaxConcurrentArgs == { 0, 1, 2 }
ConcurrentDownloadsValues == { 0, 1, 2 }

ManyUrls == { ExampleYouTube, ExampleInstagram, ExampleUnknown }

UrlLists == UNION { [1..n -> ManyUrls] : n \in 0..MaxUrls }

(* what one download call of a batch can meet *)
ManyOutcomes ==
    { [files |-> << File("a.mp4", TRUE, 3) >>, kind |-> "ok", msg |-> <<>>],
      [files |-> <<>>, kind |-> "mkdir", msg |-> <<"P","e","r","m","i","s","s","i","o","n"," ","d","e","n","i","e","d">>] }

(* self.download(url, ...) for the batch's URLs *)
DownloadOf == [u \in ManyUrls, o \in ManyOutcomes |-> download(u, o)]

Task(state, out) == [out |-> out, state |-> state]
NoOutcome == Returns(NoResult, 0)

(* the download calls in progress *)
Active == { i \in DOMAIN tasks : tasks[i].state = "running" }

(* "if max_concurrent > 1 and self.config.get('concurrent_downloads', 1) > 1" *)
UseThreadPool_Or(mc, cd) == mc > 1 \/ cd > 1

UseThreadPool(mc, cd) == mc > 1 /\ cd > 1

(* str(e) of an exception raised by the caller's progress_callback *)
CallbackError == <<"s","i","n","k"," ","f","a","i","l","e","d">>

(* the except branch of the as_completed loop *)
WorkerFailed(u, msg) == DownloadResult(FALSE, UNKNOWN, u, <<>>, <<>>, Str(msg))

(* download_multiple is called; in the concurrent branch every URL is      *)
(* submitted to the pool before as_completed is entered                    *)
DownloadMultiple(us, mc, cb) ==
    /\ mpc = "idle"
    /\ urls' = us
    /\ max_concurrent' = mc
    /\ has_callback' = cb
    /\ results' = <<>>
    /\ tasks' = [i \in 1..Len(us) |-> Task("pending", NoOutcome)]
    /\ mpc' = IF UseThreadPool(mc, concurrent_downloads)
              THEN "concurrent" ELSE "sequential"
    /\ UNCHANGED <<otherVars, dlVars, histVars, cfgVars, concurrent_downloads>>

(* ThreadPoolExecutor(max_workers=max_concurrent): an idle worker thread   *)
(* takes the oldest submitted call from the work queue                     *)
PoolWorkers(mc, n) == mc

WorkerStart(i) ==
    /\ mpc = "concurrent"
    /\ i \in DOMAIN tasks
    /\ tasks[i].state = "pending"
    /\ \A j \in 1..(i - 1) : tasks[j].state # "pending"
    /\ Cardinality(Active) < PoolWorkers(max_concurrent, Len(urls))
    /\ tasks' = [tasks EXCEPT ![i].state = "running"]
    /\ UNCHANGED <<otherVars, dlVars, histVars, cfgVars, concurrent_downloads, urls, max_concurrent,
                   has_callback, mpc, results>>

(* the download call of a worker ends: the future holds its result or its  *)
(* exception                                                               *)
WorkerFinish(i, o) ==
    /\ mpc = "concurrent"
    /\ i \in DOMAIN tasks
    /\ tasks[i].state = "running"
    /\ tasks' = [tasks EXCEPT ![i] = Task("done", DownloadOf[urls[i], o])]
    /\ UNCHANGED <<otherVars, dlVars, histVars, cfgVars, concurrent_downloads, urls, max_concurrent,
                   has_callback, mpc, results>>

(* one iteration of "for future in as_completed(future_to_url)" *)
Collect(i, cbRaises) ==
    /\ mpc = "concurrent"
    /\ i \in DOMAIN tasks
    /\ tasks[i].state = "done"
    /\ cbRaises => has_callback
    /\ LET out == tasks[i].out IN
       results' =
           IF out.raised
           THEN Append(results, WorkerFailed(urls[i], out.msg))
           ELSE IF cbRaises
           THEN Append(Append(results, out.result),
                       WorkerFailed(urls[i], CallbackError))
           ELSE Append(results, out.result)
    /\ tasks' = [tasks EXCEPT ![i].state = "yielded"]
    /\ UNCHANGED <<otherVars, dlVars, histVars, cfgVars, concurrent_downloads, urls, max_concurrent,
                   has_callback, mpc>>

(* as_completed is exhausted, the executor is shut down, results returned *)
ConcurrentReturn ==
    /\ mpc = "concurrent"
    /\ \A i \in DOMAIN tasks : tasks[i].state = "yielded"
    /\ mpc' = "returned"
    /\ UNCHANGED <<otherVars, dlVars, histVars, cfgVars, concurrent_downloads, urls, max_concurrent,
                   has_callback, tasks, results>>

(* "for url in urls": the next download call begins *)
SeqStart(i) ==
    /\ mpc = "sequential"
    /\ i \in DOMAIN tasks
    /\ tasks[i].state = "pending"
    /\ \A j \in 1..(i - 1) : tasks[j].state = "yielded"
    /\ tasks' = [tasks EXCEPT ![i].state = "running"]
    /\ UNCHANGED <<otherVars, dlVars, histVars, cfgVars, concurrent_downloads, urls, max_concurrent,
                   has_callback, mpc, results>>

(* the call returns: the result is appended and reported to the callback;  *)
(* an exception of download or of the callback leaves download_multiple    *)
SeqFinish(i, o, cbRaises) ==
    /\ mpc = "sequential"
    /\ i \in DOMAIN tasks
    /\ tasks[i].state = "running"
    /\ cbRaises => has_callback
    /\ LET out == DownloadOf[urls[i], o] IN
         /\ tasks' = [tasks EXCEPT ![i] = Task("yielded", out)]
         /\ results' = IF out.raised THEN results
                       ELSE Append(results, out.result)
         /\ mpc' = IF out.raised \/ cbRaises THEN "raised" ELSE mpc
    /\ UNCHANGED <<otherVars, dlVars, histVars, cfgVars, concurrent_downloads, urls, max_concurrent,
                   has_callback>>

SeqReturn ==
    /\ mpc = "sequential"
    /\ \A i \in DOMAIN tasks : tasks[i].state = "yielded"
    /\ mpc' = "returned"
    /\ UNCHANGED <<otherVars, dlVars, histVars, cfgVars, concurrent_downloads, urls, max_concurrent,
                   has_callback, tasks, results>>

InitMany ==
    /\ DlIdle
    /\ concurrent_downloads \in ConcurrentDownloadsValues
    /\ ManyIdle
    /\ HistIdle
    /\ CfgIdle
    /\ OtherIdle

NextMany ==
    \/ \E us \in UrlLists, mc \in MaxConcurrentArgs, cb \in BOOLEAN :
           DownloadMultiple(us, mc, cb)
    \/ \E i \in 1..MaxUrls : WorkerStart(i)
    \/ \E i \in 1..MaxUrls, o \in ManyOutcomes : WorkerFinish(i, o)
    \/ \E i \in 1..MaxUrls, cbRaises \in BOOLEAN : Collect(i, cbRaises)
    \/ ConcurrentReturn
    \/ \E i \in 1..MaxUrls : SeqStart(i)
    \/ \E i \in 1..MaxUrls, o \in ManyOutcomes, cbRaises \in BOOLEAN :
           SeqFinish(i, o, cbRaises)
    \/ SeqReturn

SpecMany == InitMany /\ [][NextMany]_vars

-----------------------------------------------------------------------------
(* Properties of download_multiple, checked under SpecMany *)

(* C4: the list download_multiple returns has, at each index i, a result   *)
(* whose url is the i-th input URL, whatever the completion order (stated  *)
(* for the calls that pass no progress callback, where the list has one    *)
(* result per URL).                                                        *)
C4_ResultsInInputOrder ==
    (mpc = "returned" /\ ~has_callback) =>
        /\ Len(results) = Len(urls)
        /\ \A i \in 1..Len(urls) : results[i].url = urls[i]

Occurrences(u, seq) == Cardinality({ i \in DOMAIN seq : seq[i] = u })
ResultUrls == [i \in DOMAIN results |-> results[i].url]

(* C5: when download_multiple returns, the list holds exactly one result   *)
(* per input URL occurrence: the same length and the same multiset of url  *)
(* fields as the input, in sequential and in concurrent mode.              *)
C5_OneResultPerUrl ==
    mpc = "returned" =>
        /\ Len(results) = Len(urls)
        /\ \A u \in ManyUrls : Occurrences(u, ResultUrls) = Occurrences(u, urls)

(* C6 as stated: at every moment at most max_concurrent download calls are *)
(* in progress, and at most one when max_concurrent <= 1 or                *)
(* concurrent_downloads <= 1.                                              *)
C6_AtMostMaxConcurrent ==
    mpc # "idle" =>
        /\ Cardinality(Active) <= max_concurrent
        /\ (max_concurrent <= 1 \/ concurrent_downloads <= 1)
               => Cardinality(Active) <= 1

(* C6 amended: at most max(max_concurrent, 1) download calls are in        *)
(* progress, and at most one, started only after every earlier URL's call  *)
(* has returned, when max_concurrent <= 1 or concurrent_downloads <= 1.    *)
C6_BoundedParallelism ==
    mpc # "idle" =>
        /\ Cardinality(Active) <= (IF max_concurrent > 1 THEN max_concurrent ELSE 1)
        /\ (max_concurrent <= 1 \/ concurrent_downloads <= 1) =>
               /\ Cardinality(Active) <= 1
               /\ \A i \in Active : \A j \in 1..(i - 1) : tasks[j].state = "yielded"

(* the pool is saturated: two calls run while a third waits for a worker *)
C6_Witness ==
    /\ mpc = "concurrent"
    /\ Cardinality(Active) = max_concurrent
    /\ \E i \in DOMAIN tasks : tasks[i].state = "pending"

-----------------------------------------------------------------------------
(* History log: save_to_history and get_download_history *)

MaxAppends == 1002

HistoryCap == 1000

(* the limit arguments tried *)
Limits == { 0, 1, 2, 50, 1000, 1001 }

(* the results handed to save_to_history: the n-th call logs a success for *)
(* odd n and a failure for even n                                          *)
LoggedResult(n) ==
    IF n % 2 = 1
    THEN [download_time |-> 1, error |-> "None", files |-> << "a.mp4" >>,
          platform |-> YOUTUBE, success |-> TRUE, title |-> "Unknown",
          total_size |-> 3, url |-> "https://youtu.be/a"]
    ELSE [download_time |-> 0,
          error |-> "Unsupported platform: https://example.com/x",
          files |-> <<>>, platform |-> UNKNOWN, success |-> FALSE,
          title |-> "", total_size |-> 0, url |-> "https://example.com/x"]

(* the entry dict; datetime.now() of the n-th call is n *)
HistoryEntry(now, r) ==
    [download_time |-> r.download_time, error |-> r.error, files |-> r.files,
     platform |-> r.platform, success |-> r.success, timestamp |-> now,
     title |-> r.title, total_size |-> r.total_size, url |-> r.url]

(* seq[start:] of Python, for any integer start *)
SliceFrom(seq, start) ==
    LET n == Len(seq)
        k == IF start < 0 THEN (IF n + start < 0 THEN 0 ELSE n + start)
             ELSE (IF start > n THEN n ELSE start)
    IN SubSeq(seq, k + 1, n)

(* "if len(history) > 1000: history = history[-1000:]" *)
Truncate_KeepOldest(history) ==
    IF Len(history) > HistoryCap THEN SubSeq(history, 1, HistoryCap) ELSE history

Truncate(history) ==
    IF Len(history) > HistoryCap THEN SliceFrom(history, -HistoryCap) ELSE history

(* json.load of the history file; an absent or unreadable file gives [] *)
LoadHistory(file) == IF file.state = "valid" THEN file.entries ELSE <<>>

save_to_history(file, now, r) ==
    HistFile("valid", Truncate(Append(LoadHistory(file), HistoryEntry(now, r))))

get_download_history(file, limit) ==
    IF file.state = "valid" THEN SliceFrom(file.entries, -limit) ELSE <<>>

SaveToHistory ==
    /\ appended < MaxAppends
    /\ history_file' = save_to_history(history_file, appended + 1,
                                       LoggedResult(appended + 1))
    /\ appended' = appended + 1
    /\ returned' = NoReturn
    /\ UNCHANGED <<otherVars, dlVars, manyVars, cfgVars>>

GetDownloadHistory(limit) ==
    /\ returned' = [called |-> TRUE, limit |-> limit,
                    value |-> get_download_history(history_file, limit)]
    /\ UNCHANGED <<otherVars, dlVars, manyVars, cfgVars, history_file, appended>>

InitHistory ==
    /\ DlIdle
    /\ concurrent_downloads = 1
    /\ ManyIdle
    /\ history_file \in { HistFile("absent", <<>>), HistFile("corrupt", <<>>) }
    /\ appended = 0
    /\ returned = NoReturn
    /\ CfgIdle
    /\ OtherIdle

NextHistory ==
    \/ SaveToHistory
    \/ \E limit \in Limits : GetDownloadHistory(limit)

SpecHistory == InitHistory /\ [][NextHistory]_vars

(* C7: after any sequence of save_to_history calls the persisted history   *)
(* holds at most 1000 entries, and they are exactly the most recently      *)
(* appended ones in append order, newest last.                             *)
C7_HistoryKeepsNewest ==
    LET h == history_file.entries
        n == IF appended < HistoryCap THEN appended ELSE HistoryCap
    IN /\ Len(h) <= HistoryCap
       /\ appended > 0 => history_file.state = "valid"
       /\ Len(h) = n
       /\ \A i \in 1..Len(h) :
              h[i] = HistoryEntry(appended - n + i, LoggedResult(appended - n + i))

(* more than 1000 entries have been appended: the oldest were dropped *)
C7_Witness ==
    /\ appended > HistoryCap
    /\ Len(history_file.entries) = HistoryCap
    /\ history_file.entries[1].timestamp = appended - HistoryCap + 1

(* C8: for every limit >= 0, get_download_history(limit) returns at most   *)
(* limit entries: the last min(limit, n) entries of the history in stored  *)
(* order.                                                                  *)
C8_HistoryCappedAtLimit ==
    returned.called =>
        LET h == history_file.entries
            m == IF returned.limit < Len(h) THEN returned.limit ELSE Len(h)
        IN /\ Len(returned.value) <= returned.limit
           /\ returned.value = SubSeq(h, Len(h) - m + 1, Len(h))

-----------------------------------------------------------------------------
(* Configuration store: Config.__init__, load_config, save_config,         *)
(* _deep_update                                                            *)

PyNone == Value("none", "None", EmptyMap)
PyStr(s) == Value("str", s, EmptyMap)
PyBool(b) == Value("bool", IF b THEN "True" ELSE "False", EmptyMap)
PyInt(digits) == Value("int", digits, EmptyMap)
PyList(items) == Value("list", items, EmptyMap)
PyDict(m) == Value("dict", "", m)

JNull == Value("null", "null", EmptyMap)
JStr(s) == Value("string", s, EmptyMap)
JBool(b) == Value("bool", IF b THEN "true" ELSE "false", EmptyMap)
JNum(digits) == Value("number", digits, EmptyMap)
JArr(items) == Value("array", items, EmptyMap)
JObj(m) == Value("object", "", m)

IsDict(x) == x.t = "dict"

(* a pathlib.Path: a value that json.dump cannot encode *)
PyPath(p) == Value("path", p, EmptyMap)

(* json.dump accepts x: no Path anywhere in it *)
RECURSIVE JsonSerializable(_)
JsonSerializable(x) ==
    /\ x.t # "path"
    /\ IsDict(x) => \A k \in DOMAIN x.m : JsonSerializable(x.m[k])

(* json.dump: the JSON text of a Python value *)
RECURSIVE ToJson(_)
ToJson(x) ==
    CASE x.t = "none" -> JNull
      [] x.t = "bool" -> JBool(x.v = "True")
      [] x.t = "int"  -> JNum(x.v)
      [] x.t = "str"  -> JStr(x.v)
      [] x.t = "list" -> JArr(x.v)
      [] x.t = "dict" -> JObj([k \in DOMAIN x.m |-> ToJson(x.m[k])])

(* json.load: the Python value of a JSON text *)
RECURSIVE FromJson(_)
FromJson(j) ==
    CASE j.t = "null"   -> PyNone
      [] j.t = "bool"   -> PyBool(j.v = "true")
      [] j.t = "number" -> PyInt(j.v)
      [] j.t = "string" -> PyStr(j.v)
      [] j.t = "array"  -> PyList(j.v)
      [] j.t = "object" -> PyDict([k \in DOMAIN j.m |-> FromJson(j.m[k])])

(* self.default_config as __init__ builds it (keys in alphabetical order) *)
DefaultConfig ==
    [ concurrent_downloads |-> PyInt("1"),
      default_quality |-> PyStr("highest"),
      download_path |-> PyStr("~/Downloads/VideoDownloader"),
      instagram |-> PyDict(
          [ cookies_file |-> PyNone,
            download_video_thumbnails |-> PyBool(FALSE),
            download_videos |-> PyBool(TRUE),
            save_metadata |-> PyBool(FALSE),
            session_file |-> PyNone,
            username |-> PyNone ]),
      output_template |-> PyStr("%(title)s_%(resolution)s.%(ext)s"),
      proxy |-> PyNone,
      rate_limit |-> PyNone,
      retries |-> PyInt("5"),
      temp_path |-> PyStr("/tmp/video_downloader"),
      timeout |-> PyInt("30"),
      vk |-> PyDict(
          [ cookies_file |-> PyNone,
            max_quality |-> PyStr("1080p"),
            referer |-> PyStr("https://vk.com/"),
            user_agent |-> PyStr("Mozilla/5.0 (Windows NT 10.0; Win64; x64) AppleWebKit/537.36") ]),
      youtube |-> PyDict(
          [ cookies_file |-> PyNone,
            embed_metadata |-> PyBool(TRUE),
            embed_thumbnail |-> PyBool(TRUE),
            format |-> PyStr("bestvideo+bestaudio/best"),
            merge_output_format |-> PyStr("mp4"),
            subtitles |-> PyBool(FALSE),
            subtitles_languages |-> PyList("en") ]) ]

(* _deep_update with the defaults winning over the loaded values *)
RECURSIVE _deep_update_KeepTarget(_, _)
_deep_update_KeepTarget(target, source) ==
    [ key \in DOMAIN target \cup DOMAIN source |->
        IF key \notin DOMAIN source THEN target[key]
        ELSE IF key \in DOMAIN target
        THEN IF IsDict(target[key]) /\ IsDict(source[key])
             THEN PyDict(_deep_update_KeepTarget(target[key].m, source[key].m))
             ELSE target[key]
        ELSE source[key] ]

(* _deep_update that skips the source keys the target does not have *)
RECURSIVE _deep_update_DropUnknown(_, _)
_deep_update_DropUnknown(target, source) ==
    [ key \in DOMAIN target |->
        IF key \notin DOMAIN source THEN target[key]
        ELSE IF IsDict(target[key]) /\ IsDict(source[key])
        THEN PyDict(_deep_update_DropUnknown(target[key].m, source[key].m))
        ELSE source[key] ]

(* the value of target after _deep_update(target, source) *)
RECURSIVE _deep_update(_, _)
_deep_update(target, source) ==
    [ key \in DOMAIN target \cup DOMAIN source |->
        IF key \notin DOMAIN source THEN target[key]
        ELSE IF key \in DOMAIN target /\ IsDict(target[key]) /\ IsDict(source[key])
        THEN PyDict(_deep_update(target[key].m, source[key].m))
        ELSE source[key] ]

(* default_config after load_config merged user_config into its shallow   *)
(* copy: the nested dicts that _deep_update recursed into are the ones     *)
(* default_config holds                                                    *)
DefaultsAfterMerge(defaults, user_config) ==
    [ key \in DOMAIN defaults |->
        IF key \in DOMAIN user_config /\ IsDict(defaults[key])
           /\ IsDict(user_config[key])
        THEN PyDict(_deep_update(defaults[key].m, user_config[key].m))
        ELSE defaults[key] ]

(* save_config: the file holds the JSON text of the document; when         *)
(* json.dump raises TypeError the file, opened for writing, is left with   *)
(* a truncated text and the exception is logged, not propagated            *)
save_config(doc) ==
    IF JsonSerializable(PyDict(doc))
    THEN CfgFile("json", ToJson(PyDict(doc)))
    ELSE CfgFile("corrupt", JNull)

(* load_config: the returned configuration, default_config and the file    *)
(* afterwards                                                              *)
load_config_WritesBack(file, defaults) ==
    IF file.state = "absent"
    THEN [config |-> defaults, default_config |-> defaults,
          file |-> save_config(defaults)]
    ELSE IF file.state = "json" /\ file.doc.t = "object"
    THEN LET user_config == FromJson(file.doc).m IN
         [config |-> _deep_update(defaults, user_config),
          default_config |-> DefaultsAfterMerge(defaults, user_config),
          file |-> save_config(_deep_update(defaults, user_config))]
    ELSE [config |-> defaults, default_config |-> defaults,
          file |-> save_config(defaults)]

load_config(file, defaults) ==
    IF file.state = "absent"
    THEN [config |-> defaults, default_config |-> defaults,
          file |-> save_config(defaults)]
    ELSE IF file.state = "json" /\ file.doc.t = "object"
    THEN LET user_config == FromJson(file.doc).m IN
         [config |-> _deep_update(defaults, user_config),
          default_config |-> DefaultsAfterMerge(defaults, user_config),
          file |-> file]
    ELSE [config |-> defaults, default_config |-> defaults, file |-> file]

(* the persisted documents tried: every object over these keys and values, *)
(* a document that is not an object, an unreadable file and no file        *)
PersistedKeys == { "download_path", "youtube", "extra" }

PersistedValues ==
    { JStr("/my/downloads"),
      JNull,
      JObj(EmptyMap),
      JObj([cookies_file |-> JStr("c.txt")]),
      JObj([embed_metadata |-> JBool(FALSE), extra |-> JNum("1")]) }

PersistedObjects ==
    { JObj(m) : m \in UNION { [D -> PersistedValues] : D \in SUBSET PersistedKeys } }

PersistedFiles ==
    { CfgFile("json", j) : j \in PersistedObjects }
    \cup { CfgFile("json", JArr("1")), CfgFile("corrupt", JNull),
           CfgFile("absent", JNull) }

(* the top-level keys at which load_config's result holds the very dict    *)
(* that default_config holds (the copy is shallow): the dict-valued        *)
(* defaults that the merge did not replace                                 *)
SharedAfterLoad(file, defaults) ==
    LET dicts == { k \in DOMAIN defaults : IsDict(defaults[k]) } IN
    IF file.state = "json" /\ file.doc.t = "object"
    THEN { k \in dicts : k \in DOMAIN FromJson(file.doc).m
                             => IsDict(FromJson(file.doc).m[k]) }
    ELSE dicts

(* Config.__init__: default_config is built anew and load_config is run *)
ConfigInit ==
    /\ LET l == load_config(cfg_file, DefaultConfig) IN
         /\ config' = l.config
         /\ default_config' = l.default_config
         /\ cfg_file' = l.file
    /\ shared' = SharedAfterLoad(cfg_file, DefaultConfig)
    /\ cfg_pc' = IF cfg_pc = "saved" THEN "reloaded" ELSE "loaded"
    /\ UNCHANGED saved_doc

(* Config() *)
NewConfig ==
    /\ ConfigInit
    /\ UNCHANGED exceptCfgVars

(* save_config(doc) on the current Config object, with the in-memory       *)
(* configuration or with any document                                      *)
SaveConfig(doc) ==
    /\ cfg_pc \in { "loaded", "reloaded" }
    /\ cfg_file' = save_config(doc)
    /\ saved_doc' = doc
    /\ cfg_pc' = "saved"
    /\ UNCHANGED <<exceptCfgVars, default_config, config, shared>>

InitConfig ==
    /\ DlIdle
    /\ concurrent_downloads = 1
    /\ ManyIdle
    /\ HistIdle
    /\ cfg_file \in PersistedFiles
    /\ default_config = EmptyMap
    /\ config = EmptyMap
    /\ saved_doc = EmptyMap
    /\ cfg_pc = "none"
    /\ shared = {}
    /\ OtherIdle

NextConfig ==
    \/ NewConfig
    \/ SaveConfig(config)
    \/ \E j \in PersistedObjects : SaveConfig(FromJson(j).m)

SpecConfig == InitConfig /\ [][NextConfig]_vars

-----------------------------------------------------------------------------
(* Properties of the configuration store, checked under SpecConfig *)

(* every key of the default document, at every nesting level, is a key of c *)
RECURSIVE HasDefaultKeys(_, _)
HasDefaultKeys(defaults, c) ==
    \A key \in DOMAIN defaults :
        /\ key \in DOMAIN c
        /\ IsDict(defaults[key]) =>
               /\ IsDict(c[key])
               /\ HasDefaultKeys(defaults[key].m, c[key].m)

(* C9: after Config load, for every persisted JSON document, the in-memory *)
(* configuration contains every key of the default document at every       *)
(* nesting level.                                                          *)
C9_EveryDefaultKeyAfterLoad ==
    cfg_pc \in { "loaded", "reloaded" } => HasDefaultKeys(DefaultConfig, config)

(* for every default key that the saved document sets, at every nesting    *)
(* level, the loaded document holds the saved value                        *)
RECURSIVE AgreesOn(_, _, _)
AgreesOn(defaults, saved, loaded) ==
    \A key \in DOMAIN defaults \cap DOMAIN saved :
        /\ key \in DOMAIN loaded
        /\ IF IsDict(defaults[key]) /\ IsDict(saved[key])
           THEN /\ IsDict(loaded[key])
                /\ AgreesOn(defaults[key].m, saved[key].m, loaded[key].m)
           ELSE loaded[key] = saved[key]

-----------------------------------------------------------------------------
(* the document the current configuration file holds, as json.load gives it *)
PersistedDoc == FromJson(cfg_file.doc).m

(* loaded is the merge of persisted over defaults: a key persisted lacks    *)
(* has its default value, a key persisted sets has the persisted value      *)
(* (sub-map by sub-map where both sides hold a sub-map), and no other key   *)
(* is present                                                               *)
RECURSIVE MergedOver(_, _, _)
MergedOver(defaults, persisted, loaded) ==
    /\ DOMAIN loaded = DOMAIN defaults \cup DOMAIN persisted
    /\ \A key \in DOMAIN defaults \ DOMAIN persisted :
           loaded[key] = defaults[key]
    /\ \A key \in DOMAIN persisted \ DOMAIN defaults :
           loaded[key] = persisted[key]
    /\ \A key \in DOMAIN persisted \cap DOMAIN defaults :
           IF IsDict(defaults[key]) /\ IsDict(persisted[key])
           THEN /\ IsDict(loaded[key])
                /\ MergedOver(defaults[key].m, persisted[key].m, loaded[key].m)
           ELSE loaded[key] = persisted[key]

(* C11: loading a persisted document that lacks some default key gives     *)
(* that key its default value, every key the persisted document sets keeps *)
(* the persisted value, and the keys of the persisted document that the    *)
(* defaults do not know are present with their values after the merge.     *)
C11_MergeKeepsUserAndDefaults ==
    (cfg_pc = "loaded" /\ cfg_file.state = "json" /\ cfg_file.doc.t = "object")
        => MergedOver(DefaultConfig, PersistedDoc, config)

(* a document with an unknown key, a partly set sub-map and no             *)
(* download_path has been loaded                                           *)
C11_Witness ==
    /\ cfg_pc = "loaded"
    /\ cfg_file.state = "json" /\ cfg_file.doc.t = "object"
    /\ DOMAIN PersistedDoc = { "extra", "youtube" }
    /\ PersistedDoc["extra"] = PyStr("/my/downloads")
    /\ PersistedDoc["youtube"] = PyDict([cookies_file |-> PyStr("c.txt")])
    /\ config["extra"] = PyStr("/my/downloads")
    /\ config["download_path"] = DefaultConfig["download_path"]
    /\ config["youtube"].m["cookies_file"] = PyStr("c.txt")
    /\ config["youtube"].m["format"] = PyStr("bestvideo+bestaudio/best")

-----------------------------------------------------------------------------
(* Config.get and Config.set: path-addressed access.  keys is              *)
(* key.split('.').                                                         *)

(* set: the walk down keys[:-1] and the assignment.  Stepping into a value *)
(* that is not a dict (a str, None, a number, a list) raises TypeError     *)
(* before anything is assigned.                                            *)
RECURSIVE SetPath(_, _, _)
SetPath(target, keys, v) ==
    IF Len(keys) = 1
    THEN [m |-> [k \in DOMAIN target \cup { keys[1] } |->
                    IF k = keys[1] THEN v ELSE target[k]],
          raised |-> FALSE]
    ELSE LET sub == IF keys[1] \in DOMAIN target THEN target[keys[1]]
                    ELSE PyDict(EmptyMap)
         IN IF ~IsDict(sub) THEN [m |-> target, raised |-> TRUE]
            ELSE LET r == SetPath(sub.m, Tail(keys), v) IN
                 [m |-> [k \in DOMAIN target \cup { keys[1] } |->
                           IF k = keys[1] THEN PyDict(r.m) ELSE target[k]],
                  raised |-> r.raised]

(* get: dict.get at each key; a missing key, a None and a step into a      *)
(* value that is not a dict all give default                               *)
RECURSIVE GetPath(_, _, _)
GetPath(v, keys, default) ==
    IF keys = <<>> THEN v
    ELSE IF ~IsDict(v) THEN default
    ELSE IF Head(keys) \notin DOMAIN v.m THEN default
    ELSE IF v.m[Head(keys)] = PyNone THEN default
    ELSE GetPath(v.m[Head(keys)], Tail(keys), default)

get(c, keys, default) == GetPath(PyDict(c), keys, default)

(* the keys and values the caller passes to set *)
SetKeys ==
    { <<"proxy">>, <<"youtube", "cookies_file">>, <<"youtube">>,
      <<"extra", "a">>, <<"download_path", "x">> }

SetValues ==
    { PyStr("c.txt"), PyNone, PyBool(FALSE),
      PyDict([cookies_file |-> PyStr("c.txt")]), PyPath("/x") }

(* config.set(key, value) on the current Config object *)
(* what set does to the Config object and its file; nothing when it raises *)
SetConfig(keys, v) ==
    LET r == SetPath(config, keys, v) IN
         IF r.raised
         THEN UNCHANGED <<cfg_file, default_config, config, saved_doc,
                          cfg_pc, shared>>
         ELSE /\ config' = r.m
              /\ shared' = IF Len(keys) = 1 THEN shared \ { keys[1] } ELSE shared
              /\ default_config' =
                     [k \in DOMAIN default_config |->
                        IF k \in shared' THEN r.m[k] ELSE default_config[k]]
              /\ cfg_file' = save_config(r.m)
              /\ saved_doc' = r.m
              /\ cfg_pc' = "saved"

Set(keys, v) ==
    /\ cfg_pc \in { "loaded", "saved", "reloaded" }
    /\ SetConfig(keys, v)
    /\ set_pc' = IF SetPath(config, keys, v).raised THEN "raised" ELSE "returned"
    /\ set_key' = keys
    /\ set_value' = v
    /\ got' = NoGet
    /\ UNCHANGED exceptSetVars

(* config.get(key) with the key of the last set *)
Get ==
    /\ set_pc = "returned"
    /\ ~got.called
    /\ got' = [called |-> TRUE, value |-> get(config, set_key, PyNone)]
    /\ UNCHANGED <<exceptSetVars, cfgVars, set_key, set_value, set_pc>>

(* the configuration files a Config object is created over *)
SetFiles ==
    { CfgFile("absent", JNull),
      CfgFile("json", JObj([youtube |-> JStr("/my/downloads")])),
      CfgFile("json", JObj([extra |-> JObj(EmptyMap),
                            youtube |-> JObj([cookies_file |-> JStr("c.txt")])])) }

InitSet ==
    /\ DlIdle
    /\ concurrent_downloads = 1
    /\ ManyIdle
    /\ HistIdle
    /\ cfg_file \in SetFiles
    /\ default_config = EmptyMap
    /\ config = EmptyMap
    /\ saved_doc = EmptyMap
    /\ cfg_pc = "none"
    /\ shared = {}
    /\ OtherIdle

NextSet ==
    \/ cfg_pc = "none" /\ NewConfig
    \/ \E keys \in SetKeys, v \in SetValues : Set(keys, v)
    \/ Get

SpecSet == InitSet /\ [][NextSet]_vars

(* C12: after every Config.set(dotted_key, value) call returns, the        *)
(* persisted configuration file holds the entire in-memory document, which *)
(* has value at the addressed path, and a subsequent get(dotted_key)       *)
(* returns that value.                                                     *)
C12_SetPersistsAndGetReturns ==
    set_pc = "returned" =>
        /\ cfg_file.state = "json"
        /\ cfg_file.doc.t = "object"
        /\ FromJson(cfg_file.doc).m = config
        /\ ~SetPath(config, set_key, set_value).raised
        /\ SetPath(config, set_key, set_value).m = config
        /\ got.called => got.value = set_value

-----------------------------------------------------------------------------
(* _download_instagram statement by statement, with the working directory  *)
(* of the process.  download runs one call on the caller's (main) thread;  *)
(* download_multiple with concurrency enabled runs one call per URL on     *)
(* pool threads, all with the same output_path.                            *)

MaxIgCalls == 2

Dirs == { "/home", "/downloads" }

(* one call: pc is the statement about to run; shortcode tells whether     *)
(* _extract_instagram_shortcode finds one in the call's URL                *)
IgCall(output_dir, shortcode) ==
    [called_in |-> "", changed |-> FALSE, ended_in |-> "", engine_dir |-> "",
     error |-> "", original_dir |-> "", output_dir |-> output_dir,
     pc |-> "mkdir", shortcode |-> shortcode, success |-> FALSE]

(* download(url) with an Instagram URL, on the main thread *)
IgDownload(output_dir, shortcode) ==
    /\ ig_mode = "none"
    /\ ig_mode' = "single"
    /\ ig' = << IgCall(output_dir, shortcode) >>
    /\ UNCHANGED <<exceptIgVars, cwd>>

(* download_multiple(urls, output_path, max_concurrent) with n Instagram   *)
(* URLs, max_concurrent > 1 and concurrent_downloads > 1: the pool runs    *)
(* self.download(url, quality, output_path, ...) once per URL              *)
IgDownloadMultiple(output_dir, n, shortcode) ==
    /\ ig_mode = "none"
    /\ ig_mode' = "pool"
    /\ ig' = [i \in 1..n |-> IgCall(output_dir, shortcode)]
    /\ UNCHANGED <<exceptIgVars, cwd>>

IgAt(i, pc) == i \in DOMAIN ig /\ ig[i].pc = pc

(* output_dir.mkdir(parents=True, exist_ok=True); a failure is caught by   *)
(* the outer except and becomes a failed result                            *)
IgMkdir(i, ok) ==
    /\ IgAt(i, "mkdir")
    /\ ig' = [ig EXCEPT ![i].called_in = cwd,
                        ![i].error = IF ok THEN "" ELSE "mkdir",
                        ![i].pc = IF ok THEN "getcwd" ELSE "return"]
    /\ UNCHANGED <<exceptIgVars, cwd, ig_mode>>

(* original_dir = os.getcwd() *)
IgGetcwd(i) ==
    /\ IgAt(i, "getcwd")
    /\ ig' = [ig EXCEPT ![i].original_dir = cwd, ![i].pc = "chdir"]
    /\ UNCHANGED <<exceptIgVars, cwd, ig_mode>>

(* os.chdir(output_dir) *)
IgChdir(i) ==
    /\ IgAt(i, "chdir")
    /\ cwd' = ig[i].output_dir
    /\ ig' = [ig EXCEPT ![i].changed = TRUE, ![i].pc = "try"]
    /\ UNCHANGED <<exceptIgVars, ig_mode>>

(* try: the inner block is entered *)
IgEnterTry(i) ==
    /\ IgAt(i, "try")
    /\ ig' = [ig EXCEPT ![i].pc = "engine"]
    /\ UNCHANGED <<exceptIgVars, cwd, ig_mode>>

(* L.download_post(post, target='.'): the engine writes relative to the    *)
(* working directory of that moment, and returns or raises                 *)
IgEngine(i, ok) ==
    /\ IgAt(i, "engine")
    /\ ig[i].shortcode
    /\ ig' = [ig EXCEPT ![i].engine_dir = cwd,
                        ![i].error = IF ok THEN "" ELSE "engine",
                        ![i].success = ok, ![i].pc = "finally"]
    /\ UNCHANGED <<exceptIgVars, cwd, ig_mode>>

(* if not shortcode: raise ValueError(f"Invalid Instagram URL: {url}"),    *)
(* before the engine is asked for the post                                 *)
IgInvalidUrl(i) ==
    /\ IgAt(i, "engine")
    /\ ~ig[i].shortcode
    /\ ig' = [ig EXCEPT ![i].error = "invalid_url", ![i].pc = "finally"]
    /\ UNCHANGED <<exceptIgVars, cwd, ig_mode>>

(* finally: os.chdir(original_dir) *)
IgFinally(i) ==
    /\ IgAt(i, "finally")
    /\ cwd' = ig[i].original_dir
    /\ ig' = [ig EXCEPT ![i].pc = "return"]
    /\ UNCHANGED <<exceptIgVars, ig_mode>>

(* return DownloadResult(...) *)
IgReturn(i) ==
    /\ IgAt(i, "return")
    /\ ig' = [ig EXCEPT ![i].ended_in = cwd, ![i].pc = "returned"]
    /\ UNCHANGED <<exceptIgVars, cwd, ig_mode>>

(* download_multiple leaves the with block of the pool once every worker   *)
(* has returned, and returns results                                       *)
IgPoolReturn ==
    /\ ig_mode = "pool"
    /\ \A i \in DOMAIN ig : ig[i].pc = "returned"
    /\ ig_mode' = "pool_returned"
    /\ UNCHANGED <<exceptIgVars, cwd, ig>>

(* KeyboardInterrupt, raised on the main thread between two statements:    *)
(* inside the inner try the finally clause runs first; 'except Exception'  *)
(* does not catch it                                                       *)
IgInterrupt(i) ==
    /\ ig_mode = "single"
    /\ i \in DOMAIN ig
    /\ ig[i].pc \in { "mkdir", "getcwd", "chdir", "try", "engine", "finally",
                      "return" }
    /\ cwd' = IF ig[i].pc \in { "engine", "finally" } THEN ig[i].original_dir
              ELSE cwd
    /\ ig' = [ig EXCEPT ![i].ended_in = cwd', ![i].pc = "interrupted"]
    /\ UNCHANGED <<exceptIgVars, ig_mode>>

InitInstagram ==
    /\ DlIdle
    /\ concurrent_downloads = 1
    /\ ManyIdle
    /\ HistIdle
    /\ CfgIdle
    /\ OtherIdle

NextInstagram ==
    \/ \E d \in Dirs, sc \in BOOLEAN : IgDownload(d, sc)
    \/ \E d \in Dirs, n \in 2..MaxIgCalls, sc \in BOOLEAN :
         IgDownloadMultiple(d, n, sc)
    \/ \E i \in 1..MaxIgCalls, ok \in BOOLEAN : IgMkdir(i, ok)
    \/ \E i \in 1..MaxIgCalls : IgGetcwd(i)
    \/ \E i \in 1..MaxIgCalls : IgChdir(i)
    \/ \E i \in 1..MaxIgCalls : IgEnterTry(i)
    \/ \E i \in 1..MaxIgCalls, ok \in BOOLEAN : IgEngine(i, ok)
    \/ \E i \in 1..MaxIgCalls : IgInvalidUrl(i)
    \/ \E i \in 1..MaxIgCalls : IgFinally(i)
    \/ \E i \in 1..MaxIgCalls : IgReturn(i)
    \/ IgPoolReturn
    \/ \E i \in 1..MaxIgCalls : IgInterrupt(i)

SpecInstagram == InitInstagram /\ [][NextInstagram]_vars

(* C15: for every Instagram download call, the process working directory   *)
(* when the call ends (by returning a success, returning a failure, or     *)
(* being interrupted) equals the working directory at the moment the call  *)
(* changed into the target directory (stated for download, where no other  *)
(* thread changes directory).                                              *)
C15_CwdRestoredAtEnd ==
    ig_mode = "single" =>
        \A i \in DOMAIN ig :
            (ig[i].pc \in { "returned", "interrupted" } /\ ig[i].changed)
                => ig[i].ended_in = ig[i].original_dir

(* C16: when download_multiple runs with concurrency enabled, every         *)
(* Instagram download's engine call executes while the process working     *)
(* directory equals that download's own target directory, however the      *)
(* other downloads' directory changes and restorations interleave.         *)
C16_EngineRunsInOwnDir ==
    ig_mode \in { "pool", "pool_returned" } =>
        \A i \in DOMAIN ig :
            ig[i].engine_dir # "" => ig[i].engine_dir = ig[i].output_dir

(* C27: a download of a URL classified Instagram in which no shortcode is  *)
(* found resolves no post, returns a failed Instagram result with the      *)
(* invalid-URL error, and leaves the working directory as it was when the  *)
(* call began                                                              *)
C27_NoShortcodeIsInvalidUrl ==
    \A i \in DOMAIN ig :
        (ig[i].pc = "returned" /\ ~ig[i].shortcode) =>
            /\ ~ig[i].success
            /\ ig[i].engine_dir = ""
            /\ ig[i].error = "invalid_url"
            /\ ig[i].ended_in = ig[i].called_in

(* C29: after download_multiple returns, the process working directory is  *)
(* the one it was called in, for every interleaving of the pool's workers  *)
C29_CwdRestoredAfterDownloadMany ==
    ig_mode = "pool_returned" => cwd = "/home"

-----------------------------------------------------------------------------
(* The console script ClipySave.py: download_media(url), statement by      *)
(* statement, with a Ctrl-C (KeyboardInterrupt) possible while the         *)
(* download is in progress.                                                *)

(* the URLs typed at the prompt *)
ConsoleUrls == Fragments \cup { f \o g : f, g \in Fragments }

(* download_media's choice of source: substring tests on the URL as typed *)
SourceOf(u) ==
    IF Contains(u, <<"y","o","u","t","u","b","e",".","c","o","m">>) \/ Contains(u, <<"y","o","u","t","u",".","b","e">>)
       \/ Contains(u, <<"m",".","y","o","u","t","u","b","e",".","c","o","m">>)
    THEN "YouTube"
    ELSE IF Contains(u, <<"i","n","s","t","a","g","r","a","m",".","c","o","m">>) THEN "Instagram"
    ELSE "VK"

(* download_media(url) is called: the Instagram branch calls               *)
(* download_instagram at once, the others build the yt-dlp command and     *)
(* enter the try                                                           *)
ConsoleStart(u) ==
    /\ console.pc = "idle"
    /\ console' = [console EXCEPT !.url = u, !.source = SourceOf(u),
                     !.pc = IF SourceOf(u) = "Instagram" THEN "instaloader"
                            ELSE "popen"]
    /\ UNCHANGED exceptConsoleVars

(* process = subprocess.Popen(cmd, ...); a failure to start yt-dlp is an   *)
(* Exception: download_media prints it and returns False                   *)
ConsolePopen(ok) ==
    /\ console.pc = "popen"
    /\ console' = IF ok
                  THEN [console EXCEPT !.process = "running", !.partial = TRUE,
                                       !.pc = "reading"]
                  ELSE [console EXCEPT !.ret = "False", !.pc = "returned"]
    /\ UNCHANGED exceptConsoleVars

(* for line in process.stdout ... process.wait(): the child ends with a    *)
(* return code                                                             *)
ConsoleProcessExit(code) ==
    /\ console.pc = "reading"
    /\ console' = [console EXCEPT !.process = "exited", !.code = code,
                                  !.pc = "returncode"]
    /\ UNCHANGED exceptConsoleVars

(* if process.returncode == 0: return True, else: return False *)
ConsoleReturn ==
    /\ console.pc = "returncode"
    /\ console' = [console EXCEPT
                     !.ret = IF console.code = 0 THEN "True" ELSE "False",
                     !.pc = "returned"]
    /\ UNCHANGED exceptConsoleVars

(* except KeyboardInterrupt: process.terminate() when process is bound,    *)
(* return False                                                            *)
ConsoleInterruptYtDlp ==
    /\ console.pc \in { "popen", "reading", "returncode" }
    /\ console' = [console EXCEPT
                     !.interrupted = TRUE,
                     !.process = IF console.process = "running"
                                 THEN "terminated" ELSE console.process,
                     !.ret = "False",
                     !.pc = "returned"]
    /\ UNCHANGED exceptConsoleVars

(* download_instagram: L.download_post(post, target='.') runs in this      *)
(* process; it returns, or raises an Exception that is printed, and        *)
(* download_instagram returns True or False                                *)
ConsoleInstaloader(ok) ==
    /\ console.pc = "instaloader"
    /\ console' = [console EXCEPT !.partial = TRUE,
                     !.ret = IF ok THEN "True" ELSE "False",
                     !.pc = "returned"]
    /\ UNCHANGED exceptConsoleVars

(* download_instagram has 'except Exception' only and download_media calls *)
(* it outside its own try: a KeyboardInterrupt during the engine call      *)
(* unwinds the engine and leaves download_media as an exception, to the    *)
(* handler at the bottom of the script, which ends the program             *)
ConsoleInterruptInstagram ==
    /\ console.pc = "instaloader"
    /\ console' = [console EXCEPT !.interrupted = TRUE, !.partial = TRUE,
                                  !.pc = "raised"]
    /\ UNCHANGED exceptConsoleVars

InitConsole ==
    /\ DlIdle
    /\ concurrent_downloads = 1
    /\ ManyIdle
    /\ HistIdle
    /\ CfgIdle
    /\ OtherIdle

NextConsole ==
    \/ \E u \in ConsoleUrls : ConsoleStart(u)
    \/ \E ok \in BOOLEAN : ConsolePopen(ok)
    \/ \E code \in { 0, 1 } : ConsoleProcessExit(code)
    \/ ConsoleReturn
    \/ ConsoleInterruptYtDlp
    \/ \E ok \in BOOLEAN : ConsoleInstaloader(ok)
    \/ ConsoleInterruptInstagram

SpecConsole == InitConsole /\ [][NextConsole]_vars

(* C18: in the console flow (download_media), for every platform route, a  *)
(* user interruption arriving while a download is in progress leads to the *)
(* in-flight external process or engine call being terminated and the      *)
(* operation reporting failure (never success), without deleting partial   *)
(* output files.                                                           *)
C18_InterruptReportsFailure ==
    console.interrupted =>
        /\ console.process # "running"
        /\ console.pc = "returned"
        /\ console.ret = "False"
        /\ console.partial \/ console.process = "none"

-----------------------------------------------------------------------------
(* main_cli: argument parsing, the construction of the downloader and the  *)
(* requested operation.  config_arg is args.config, "" when the flag is    *)
(* absent.                                                                 *)

DefaultConfigPath == "~/.video_downloader/config.json"

CliConfigArgs == { "", "my.json" }

CliOperations == { "history", "set_cookies", "info", "batch", "url", "help" }

(* VideoDownloader.__init__(config) with config None ("") or a str, as     *)
(* main_cli calls it: a str is not a Config, so Config() is built on the   *)
(* default path, and a non-empty str then goes to dict.update, which       *)
(* raises ValueError                                                       *)
VideoDownloader__init__(config_arg) ==
    IF config_arg = ""
    THEN [config_path |-> DefaultConfigPath, exc |-> "", raised |-> FALSE]
    ELSE [config_path |-> DefaultConfigPath, exc |-> "ValueError",
          raised |-> TRUE]

(* args = parser.parse_args() *)
CliParse(config_arg, op) ==
    /\ cli.pc = "idle"
    /\ cli' = [cli EXCEPT !.config_arg = config_arg, !.op = op, !.pc = "parsed"]
    /\ UNCHANGED <<exceptCliVars, cfgVars>>

(* downloader = VideoDownloader(args.config if args.config else None);     *)
(* an exception here is not caught: the command ends with a traceback      *)
CliConstruct ==
    /\ cli.pc = "parsed"
    /\ ConfigInit
    /\ LET d == VideoDownloader__init__(cli.config_arg) IN
         cli' = [cli EXCEPT !.config_path = d.config_path, !.exc = d.exc,
                            !.pc = IF d.raised THEN "raised" ELSE "constructed"]
    /\ UNCHANGED exceptCliVars

(* the branch of main_cli that args select runs *)
CliOperation ==
    /\ cli.pc = "constructed"
    /\ cli' = [cli EXCEPT !.pc = "done"]
    /\ UNCHANGED <<exceptCliVars, cfgVars>>

InitCli ==
    /\ DlIdle
    /\ concurrent_downloads = 1
    /\ ManyIdle
    /\ HistIdle
    /\ cfg_file \in PersistedFiles
    /\ default_config = EmptyMap
    /\ config = EmptyMap
    /\ saved_doc = EmptyMap
    /\ cfg_pc = "none"
    /\ shared = {}
    /\ OtherIdle

NextCli ==
    \/ \E c \in CliConfigArgs, op \in CliOperations : CliParse(c, op)
    \/ CliConstruct
    \/ CliOperation

SpecCli == InitCli /\ [][NextCli]_vars

(* C19: when the command line is given a config path override, the         *)
(* downloader's Configuration is loaded from (and later persisted to) that *)
(* path, and the command proceeds to the requested operation.              *)
C19_ConfigOverrideUsed ==
    (cli.config_arg # "" /\ cli.pc \notin { "idle", "parsed" }) =>
        /\ cli.pc \in { "constructed", "done" }
        /\ cli.config_path = cli.config_arg

-----------------------------------------------------------------------------
(* CookieManager.set_cookies and _dict_to_netscape.  File texts are        *)
(* sequences of characters.  A dict is the sequence of its items, in       *)
(* insertion order; an item's value is a str (t = "str", v its text) or a  *)
(* dict (t = "dict", v the sequence of its <<name, value>> items).         *)

CookieHeader == <<"#"," ","N","e","t","s","c","a","p","e"," ","H","T","T","P"," ","C","o","o","k","i","e"," ","F","i","l","e">> \o << "\n" >>

(* f"{domain}\tTRUE\t/\tFALSE\t0\t{name}\t{value}\n" *)
CookieLine(domain, name, value) ==
    domain \o << "\t" >> \o <<"T","R","U","E">> \o << "\t" >> \o <<"/">> \o << "\t" >>
    \o <<"F","A","L","S","E">> \o << "\t" >> \o <<"0">> \o << "\t" >> \o name \o << "\t" >>
    \o value \o << "\n" >>

(* the inner loop: one line per item of cookie_data *)
RECURSIVE WriteCookies(_, _)
WriteCookies(domain, pairs) ==
    IF pairs = <<>> THEN <<>>
    ELSE CookieLine(domain, Head(pairs)[1], Head(pairs)[2])
         \o WriteCookies(domain, Tail(pairs))

(* the outer loop: cookie_data.items() raises AttributeError when          *)
(* cookie_data is not a dict; what was written before stays in the file    *)
RECURSIVE WriteDomains(_, _)
WriteDomains(items, text) ==
    IF items = <<>> THEN [raised |-> FALSE, text |-> text]
    ELSE IF Head(items).t # "dict" THEN [raised |-> TRUE, text |-> text]
    ELSE WriteDomains(Tail(items),
                      text \o WriteCookies(Head(items).k, Head(items).v))

_dict_to_netscape(items) == WriteDomains(items, CookieHeader)

(* str(cookie_file) for each platform *)
CookiePath ==
    [p \in PlatformValues |->
       CASE p = "youtube" -> "~/.video_downloader/cookies/youtube_cookies.txt"
         [] p = "instagram" -> "~/.video_downloader/cookies/instagram_cookies.txt"
         [] p = "vk" -> "~/.video_downloader/cookies/vk_cookies.txt"
         [] p = "unknown" -> "~/.video_downloader/cookies/unknown_cookies.txt"]

CookieFile(text) == [state |-> "written", text |-> text]

(* the first half of set_cookies: the cookie file afterwards, and whether  *)
(* an exception left the method before config.set                          *)
WriteCookieFile(arg, file) ==
    IF arg.kind = "path"
    THEN IF arg.exists
         THEN [exc |-> "", file |-> CookieFile(arg.text), raised |-> FALSE]
         ELSE [exc |-> "FileNotFoundError", file |-> file, raised |-> TRUE]
    ELSE IF arg.kind = "dict"
    THEN LET w == _dict_to_netscape(arg.items) IN
         [exc |-> IF w.raised THEN "AttributeError" ELSE "",
          file |-> CookieFile(w.text), raised |-> w.raised]
    ELSE [exc |-> "", file |-> CookieFile(arg.text), raised |-> FALSE]

(* the cookies arguments tried: a name->value mapping, an empty mapping, a *)
(* domain->{name->value} mapping, a text blob, a file and a missing file   *)
CookieArg(kind, items, text, exists) ==
    [exists |-> exists, items |-> items, kind |-> kind, text |-> text]

CookieArgs ==
    { CookieArg("dict", << [k |-> <<"s","e","s","s","i","o","n","i","d">>, t |-> "str", v |-> <<"a","b","c">>] >>, <<>>, FALSE),
      CookieArg("dict", << [k |-> <<"s","e","s","s","i","o","n","i","d">>, t |-> "str", v |-> <<"a","b","c">>],
                           [k |-> <<"l","a","n","g">>, t |-> "str", v |-> <<"e","n">>] >>, <<>>, FALSE),
      CookieArg("dict", <<>>, <<>>, FALSE),
      CookieArg("dict", << [k |-> <<".","v","k",".","c","o","m">>, t |-> "dict",
                            v |-> << << <<"s","e","s","s","i","o","n","i","d">>, <<"a","b","c">> >>,
                                     << <<"l","a","n","g">>, <<"e","n">> >> >>] >>, <<>>, FALSE),
      CookieArg("str", <<>>, <<"s","e","s","s","i","o","n","i","d","=","a","b","c">>, FALSE),
      CookieArg("path", <<>>, CookieLine(<<".","v","k",".","c","o","m">>, <<"s","e","s","s","i","o","n","i","d">>, <<"a","b","c">>), TRUE),
      CookieArg("path", <<>>, <<>>, FALSE) }

(* downloader.set_cookies(platform, cookies) *)
SetCookies(p, arg) ==
    /\ cfg_pc \in { "loaded", "saved", "reloaded" }
    /\ ck.pc = "idle"
    /\ LET w == WriteCookieFile(arg, cookie_files[p])
           keys == << p, "cookies_file" >>
           v == PyStr(CookiePath[p])
       IN /\ cookie_files' = [cookie_files EXCEPT ![p] = w.file]
          /\ IF w.raised
             THEN /\ UNCHANGED cfgVars
                  /\ ck' = [arg |-> arg, exc |-> w.exc, pc |-> "raised",
                            platform |-> p]
             ELSE /\ SetConfig(keys, v)
                  /\ ck' = IF SetPath(config, keys, v).raised
                           THEN [arg |-> arg, exc |-> "TypeError",
                                 pc |-> "raised", platform |-> p]
                           ELSE [arg |-> arg, exc |-> "", pc |-> "returned",
                                 platform |-> p]
    /\ UNCHANGED exceptCookieVars

InitCookies ==
    /\ DlIdle
    /\ concurrent_downloads = 1
    /\ ManyIdle
    /\ HistIdle
    /\ cfg_file \in PersistedFiles
    /\ default_config = EmptyMap
    /\ config = EmptyMap
    /\ saved_doc = EmptyMap
    /\ cfg_pc = "none"
    /\ shared = {}
    /\ OtherIdle

NextCookies ==
    \/ cfg_pc = "none" /\ NewConfig
    \/ \E p \in PlatformValues, arg \in CookieArgs : SetCookies(p, arg)

SpecCookies == InitCookies /\ [][NextCookies]_vars

(* the pieces of s between the occurrences of the character sep *)
RECURSIVE Split(_, _)
Split(s, sep) ==
    LET at == { i \in 1..Len(s) : s[i] = sep } IN
    IF at = {} THEN << s >>
    ELSE LET i == CHOOSE i \in at : \A j \in at : i <= j
         IN << SubSeq(s, 1, i - 1) >> \o Split(SubSeq(s, i + 1, Len(s)), sep)

(* the lines of a text in which every line ends with a newline *)
LinesOf(text) ==
    LET pieces == Split(text, "\n") IN SubSeq(pieces, 1, Len(pieces) - 1)

(* cookies is a mapping of cookie name to cookie value *)
IsNameValueMapping(arg) ==
    /\ arg.kind = "dict"
    /\ \A i \in DOMAIN arg.items : arg.items[i].t = "str"

(* C20: set_credentials(platform, m) with m a mapping of cookie name to    *)
(* cookie value succeeds and writes a cookie file consisting of the fixed  *)
(* header comment line followed by exactly one 7-column tab-separated line *)
(* per cookie (domain, flag, path, secure flag, expiry, name, value), and  *)
(* records that file's path under the platform in Configuration.           *)
C20_MappingWritesCookieFile ==
    (ck.pc # "idle" /\ IsNameValueMapping(ck.arg)) =>
        /\ ck.pc = "returned"
        /\ cookie_files[ck.platform].state = "written"
        /\ LET lines == LinesOf(cookie_files[ck.platform].text)
               items == ck.arg.items
           IN /\ Len(lines) = 1 + Len(items)
              /\ lines[1] \o << "\n" >> = CookieHeader
              /\ \A i \in DOMAIN items :
                    LET cols == Split(lines[i + 1], "\t") IN
                    /\ Len(cols) = 7
                    /\ cols[6] = items[i].k
                    /\ cols[7] = items[i].v
        /\ get(config, << ck.platform, "cookies_file" >>, PyNone)
               = PyStr(CookiePath[ck.platform])

-----------------------------------------------------------------------------
(* The options handed to the engine: _download_youtube, _download_vk,      *)
(* _get_youtube_info, _get_vk_info and main_cli's quality argument.  Of    *)
(* the options bag, the keys kept are format, retries, socket_timeout,     *)
(* cookiefile and proxy; the fixed keys (quiet, no_warnings, outtmpl, the  *)
(* hooks, the per-platform headers and flags) are left out.                *)

(* the values of VideoQuality *)
VideoQuality == { "lowest", "low", "medium", "high", "highest", "audio_only" }

(* quality_map of _download_youtube and of _download_vk *)
quality_map ==
    [p \in { YOUTUBE, VK } |->
       IF p = YOUTUBE
       THEN [q \in VideoQuality |->
               CASE q = "lowest" -> "worst"
                 [] q = "low" -> "worst[height<=360]"
                 [] q = "medium" -> "best[height<=720]"
                 [] q = "high" -> "best[height<=1080]"
                 [] q = "highest" -> "bestvideo+bestaudio/best"
                 [] q = "audio_only" -> "bestaudio/best"]
       ELSE [q \in VideoQuality |->
               CASE q = "lowest" -> "worst"
                 [] q = "low" -> "worst[height<=360]"
                 [] q = "medium" -> "best[height<=480]"
                 [] q = "high" -> "best[height<=720]"
                 [] q = "highest" -> "best[height<=1080]"
                 [] q = "audio_only" -> "bestaudio/best"]]

(* isinstance(quality, VideoQuality) decides: the table entry for a member *)
(* of the enumeration, the argument itself for anything else               *)
format_spec(p, quality) ==
    IF quality.kind = "enum" THEN quality_map[p][quality.value]
    ELSE quality.value

(* the quality arguments tried: an enumeration member passed by a caller   *)
(* of the library, the string argparse stores for -q (main_cli passes      *)
(* args.quality on as it is), and an engine format string                  *)
QualityArgs ==
    [kind : { "enum" }, value : VideoQuality, via : { "api" }]
    \cup [kind : { "str" }, value : VideoQuality, via : { "cli" }]
    \cup [kind : { "str" }, value : { "137+140" }, via : { "api" }]

(* bool(v) *)
Truthy(v) ==
    CASE v.t = "none" -> FALSE
      [] v.t = "bool" -> v.v = "True"
      [] v.t = "int" -> v.v # "0"
      [] v.t = "dict" -> DOMAIN v.m # {}
      [] OTHER -> v.v # ""

(* Path(cookie_file).exists(), for the cookie paths of the model *)
CookieExists(path) ==
    \E p \in PlatformValues :
        CookiePath[p] = path /\ cookie_files[p].state = "written"

(* cookie_file = get_cookie_file(p); if cookie_file and                    *)
(* Path(cookie_file).exists(): opts['cookiefile'] = str(cookie_file)       *)
CookieOption(p) ==
    LET cookie_file == get(config, << p, "cookies_file" >>, PyNone) IN
    IF Truthy(cookie_file) /\ CookieExists(cookie_file.v)
    THEN [k \in { "cookiefile" } |-> PyStr(cookie_file.v)]
    ELSE EmptyMap

(* if self.config.get('proxy'): ydl_opts['proxy'] = ...; _download_youtube *)
(* has these lines, _download_vk has not                                   *)
ProxyOption(p) ==
    IF p = YOUTUBE /\ Truthy(get(config, << "proxy" >>, PyNone))
    THEN [k \in { "proxy" } |-> get(config, << "proxy" >>, PyNone)]
    ELSE EmptyMap

(* ydl_opts of _download_youtube / _download_vk *)
DownloadOptions(p, quality) ==
    [k \in { "format", "retries", "socket_timeout" } |->
       CASE k = "format" -> PyStr(format_spec(p, quality))
         [] k = "retries" -> get(config, << "retries" >>, PyInt("5"))
         [] k = "socket_timeout" -> get(config, << "timeout" >>, PyInt("30"))]
    @@ CookieOption(p) @@ ProxyOption(p)

(* ydl_opts of _get_youtube_info / _get_vk_info *)
InfoOptions(p) == CookieOption(p)

BuildDownloadOptions(p, quality) ==
    /\ cfg_pc = "loaded"
    /\ opt' = [op |-> "download", options |-> DownloadOptions(p, quality),
               pc |-> "built", platform |-> p, quality |-> quality]
    /\ UNCHANGED <<exceptOptVars, cfgVars, cookieVars>>

BuildInfoOptions(p) ==
    /\ cfg_pc = "loaded"
    /\ opt' = [op |-> "info", options |-> InfoOptions(p), pc |-> "built",
               platform |-> p, quality |-> NoOptions.quality]
    /\ UNCHANGED <<exceptOptVars, cfgVars, cookieVars>>

(* the configuration files tried: any subset of proxy, retries, timeout    *)
(* and the two cookie references                                           *)
OptionValue ==
    [k \in { "proxy", "retries", "timeout", "vk", "youtube" } |->
       CASE k = "proxy" -> JStr("http://127.0.0.1:8080")
         [] k = "retries" -> JNum("3")
         [] k = "timeout" -> JNum("10")
         [] OTHER -> JObj([cookies_file |-> JStr(CookiePath[k])])]

OptionFiles ==
    { CfgFile("json", JObj([k \in D |-> OptionValue[k]])) :
        D \in SUBSET DOMAIN OptionValue }
    \cup { CfgFile("absent", JNull) }

(* a cookie file is absent, empty, or holds a cookie *)
CookieFileStates ==
    { NoCookieFile, CookieFile(<<>>),
      CookieFile(CookieLine(<<".","v","k",".","c","o","m">>, <<"s","i","d">>, <<"a">>)) }

InitOptions ==
    /\ DlIdle
    /\ concurrent_downloads = 1
    /\ ManyIdle
    /\ HistIdle
    /\ cfg_file \in OptionFiles
    /\ default_config = EmptyMap
    /\ config = EmptyMap
    /\ saved_doc = EmptyMap
    /\ cfg_pc = "none"
    /\ shared = {}
    /\ SetIdle /\ InfoIdle /\ IgIdle /\ ConsoleIdle /\ CliIdle
    /\ \E y, v \in CookieFileStates :
         cookie_files = [p \in PlatformValues |->
                           CASE p = YOUTUBE -> y [] p = VK -> v
                             [] OTHER -> NoCookieFile]
    /\ ck = NoCookieCall
    /\ OptIdle /\ RelayIdle /\ RaceIdle /\ CtorIdle

NextOptions ==
    \/ cfg_pc = "none" /\ NewConfig
    \/ \E p \in { YOUTUBE, VK }, q \in QualityArgs : BuildDownloadOptions(p, q)
    \/ \E p \in { YOUTUBE, VK } : BuildInfoOptions(p)

SpecOptions == InitOptions /\ [][NextOptions]_vars

(* C21: for YouTube and VK downloads, a quality given as a member of the   *)
(* enumeration or by its name on the command line yields the platform's    *)
(* table entry as the format; an engine format string is passed unchanged  *)
C21_FormatIsTableEntry ==
    (opt.pc = "built" /\ opt.op = "download") =>
        IF opt.quality.kind = "enum" \/ opt.quality.via = "cli"
        THEN opt.options["format"] = PyStr(quality_map[opt.platform][opt.quality.value])
        ELSE opt.options["format"] = PyStr(opt.quality.value)

-----------------------------------------------------------------------------
(* Properties of loading, checked under SpecConfig *)

-----------------------------------------------------------------------------
(* Properties of the options bag, checked under SpecOptions *)

(* the cookie file the configuration references for platform p exists and  *)
(* holds at least one character                                            *)
ReferencedCookieFileNonEmpty(p) ==
    LET ref == get(config, << p, "cookies_file" >>, PyNone) IN
    /\ ref # PyNone
    /\ \E f \in PlatformValues :
         /\ CookiePath[f] = ref.v
         /\ cookie_files[f].state = "written"
         /\ cookie_files[f].text # <<>>

(* C23: the options bag of a download or an info probe holds a cookie file *)
(* path exactly when the configuration references a cookie file for the    *)
(* platform and that file exists and is not empty                          *)
C23_CookieFileOnlyIfNonEmpty ==
    opt.pc = "built" =>
        ("cookiefile" \in DOMAIN opt.options
            <=> ReferencedCookieFileNonEmpty(opt.platform))

(* C24: when the configuration has a proxy URL, the options bag of a       *)
(* YouTube or VK download carries it, with the configured retry count and  *)
(* timeout                                                                 *)
C24_ProxyRetriesTimeoutPassed ==
    (opt.pc = "built" /\ opt.op = "download"
       /\ get(config, << "proxy" >>, PyNone) # PyNone) =>
        /\ "proxy" \in DOMAIN opt.options
        /\ opt.options["proxy"] = config["proxy"]
        /\ opt.options["retries"] = config["retries"]
        /\ opt.options["socket_timeout"] = config["timeout"]

-----------------------------------------------------------------------------
(* The progress hook: _create_progress_hook.  A value of the engine's      *)
(* event dict is <<"absent">> (no such key), <<"none">> (None) or          *)
(* <<"int", n>>; an event forwarded to the callback is a function from the *)
(* keys of the dict the hook builds to their values.                       *)

MaxEvents == 3

Absent == << "absent" >>
NoneValue == << "none" >>
IntValue(n) == << "int", n >>

(* d.get(key, default) *)
DictGet(d, key, default) == IF d[key] = Absent THEN default ELSE d[key]

(* a or b *)
PyOr(a, b) == IF a = NoneValue \/ a = IntValue(0) THEN b ELSE a

(* the events the engine reports: downloading with or without the byte     *)
(* counts, finished, and error                                             *)
EngineEvents ==
    [downloaded_bytes : { IntValue(0), IntValue(50) },
     status : { "downloading" },
     total_bytes : { Absent, NoneValue, IntValue(100) },
     total_bytes_estimate : { Absent, NoneValue, IntValue(0), IntValue(200) }]
    \cup [downloaded_bytes : { Absent }, status : { "finished", "error" },
          total_bytes : { Absent }, total_bytes_estimate : { Absent }]

(* total = d.get('total_bytes', 0) or d.get('total_bytes_estimate', 0) *)
TotalOf(d) ==
    PyOr(DictGet(d, "total_bytes", IntValue(0)),
         DictGet(d, "total_bytes_estimate", IntValue(0)))

(* (downloaded / total * 100) if total > 0 else 0, as a fraction           *)
(* <<numerator, denominator>>                                              *)
Percentage(downloaded, total) ==
    IF total[2] > 0 THEN << downloaded[2] * 100, total[2] >> ELSE << 0, 1 >>

(* the dict hook(d) passes to the callback; speed and eta are copied from  *)
(* d and not modelled further                                              *)
HookEvent(d) ==
    IF d.status = "downloading"
    THEN [k \in { "downloaded", "eta", "filename", "percentage", "speed", "total" } |->
            CASE k = "downloaded" -> DictGet(d, "downloaded_bytes", IntValue(0))
              [] k = "total" -> TotalOf(d)
              [] k = "percentage" ->
                   Percentage(DictGet(d, "downloaded_bytes", IntValue(0)), TotalOf(d))
              [] OTHER -> << "copied" >>]
    ELSE [k \in { "filename", "status" } |->
            IF k = "status" THEN "finished" ELSE << "copied" >>]

(* 'total > 0' raises TypeError when total is None *)
HookRaises(d) == d.status = "downloading" /\ TotalOf(d) = NoneValue

(* hook = self._create_progress_hook(progress_callback) *)
CreateProgressHook(cb) ==
    /\ relay.pc = "idle"
    /\ relay' = [forwarded |-> <<>>, has_callback |-> cb, pc |-> "hooked",
                 seen |-> 0]
    /\ UNCHANGED exceptRelayVars

(* the engine calls hook(d) *)
Hook(d) ==
    /\ relay.pc = "hooked"
    /\ relay.seen < MaxEvents
    /\ relay' =
         IF d.status \notin { "downloading", "finished" } \/ ~relay.has_callback
         THEN [relay EXCEPT !.seen = @ + 1]
         ELSE IF HookRaises(d)
         THEN [relay EXCEPT !.pc = "raised", !.seen = @ + 1]
         ELSE [relay EXCEPT !.forwarded = Append(@, HookEvent(d)),
                            !.seen = @ + 1]
    /\ UNCHANGED exceptRelayVars

InitRelay ==
    /\ DlIdle
    /\ concurrent_downloads = 1
    /\ ManyIdle
    /\ HistIdle
    /\ CfgIdle
    /\ OtherIdle

NextRelay ==
    \/ \E cb \in BOOLEAN : CreateProgressHook(cb)
    \/ \E d \in EngineEvents : Hook(d)

SpecRelay == InitRelay /\ [][NextRelay]_vars

(* C25: every event forwarded to the sink has the one normalized shape: a  *)
(* status of downloading or finished, and for a downloading event a total  *)
(* that is 0 when unknown and a percentage that is 0 when the total is 0   *)
(* and downloaded/total*100 otherwise; no more events are forwarded than   *)
(* the engine reported                                                     *)
C25_ForwardedEventsNormalized ==
    /\ Len(relay.forwarded) <= relay.seen
    /\ \A i \in DOMAIN relay.forwarded :
         LET ev == relay.forwarded[i] IN
         /\ "status" \in DOMAIN ev
         /\ ev["status"] \in { "downloading", "finished" }
         /\ ev["status"] = "downloading" =>
              /\ ev["total"][1] = "int"
              /\ ev["percentage"] =
                   IF ev["total"][2] = 0 THEN << 0, 1 >>
                   ELSE << ev["downloaded"][2] * 100, ev["total"][2] >>

-----------------------------------------------------------------------------
(* Config.set called from several threads of one process.  set takes no    *)
(* lock, so a thread switch can fall between any two of its statements:    *)
(* the test 'k not in target', 'target[k] = {}', 'target = target[k]',     *)
(* the assignment, and in save_config the open (which truncates the file), *)
(* json.dump (which fills the file object's buffer) and the close (which   *)
(* writes the buffer at offset 0).  The calls add entries under the key    *)
(* 'extra', which the defaults do not have.                                *)

RaceCalls ==
    { [keys |-> << "extra", "a" >>, value |-> PyInt("1")],
      [keys |-> << "extra", "a" >>, value |-> PyInt("2")],
      [keys |-> << "extra", "b" >>, value |-> PyInt("2")] }

Setter(i) == setters.threads[i]

SetterAt(i, pc) == Setter(i).pc = pc

Moved(i, pc) == [setters EXCEPT !.threads[i].pc = pc]

(* the length of the JSON text of doc beyond that of the defaults: one     *)
(* entry for 'extra' and one for each key under it (the keys and values of *)
(* RaceCalls have one length)                                              *)
ExtraLength(doc) ==
    IF "extra" \in DOMAIN doc.m
    THEN 1 + Cardinality(DOMAIN doc.m["extra"].m)
    ELSE 0

(* the file after a buffer is written at offset 0 over what it holds: the  *)
(* buffer when that is at least as long, a mix of the two texts otherwise  *)
WrittenOver(file, buffer) ==
    IF file.state = "json" /\ ExtraLength(file.doc) > ExtraLength(buffer)
    THEN CfgFile("corrupt", JNull)
    ELSE CfgFile("json", buffer)

(* a thread calls config.set(key, value) *)
RaceSet(i, call) ==
    /\ cfg_pc = "loaded"
    /\ SetterAt(i, "idle")
    /\ setters' = [setters EXCEPT !.threads[i] =
                     [buffer |-> JNull, gen |-> 0, keys |-> call.keys,
                      pc |-> "test", value |-> call.value]]
    /\ UNCHANGED <<exceptRaceVars, cfgVars>>

(* if k not in target *)
RaceTest(i) ==
    /\ SetterAt(i, "test")
    /\ setters' = Moved(i, IF Setter(i).keys[1] \in DOMAIN config
                           THEN "descend" ELSE "create")
    /\ UNCHANGED <<exceptRaceVars, cfgVars>>

(* target[k] = {}: a new dict replaces whatever another thread put there *)
RaceCreate(i) ==
    /\ SetterAt(i, "create")
    /\ config' = [k \in DOMAIN config \cup { Setter(i).keys[1] } |->
                    IF k = Setter(i).keys[1] THEN PyDict(EmptyMap)
                    ELSE config[k]]
    /\ setters' = [Moved(i, "descend") EXCEPT !.gen = @ + 1]
    /\ UNCHANGED <<exceptRaceVars, cfg_file, default_config, saved_doc,
                   cfg_pc, shared>>

(* target = target[k]: the thread holds the dict that is there now *)
RaceDescend(i) ==
    /\ SetterAt(i, "descend")
    /\ setters' = [Moved(i, "assign") EXCEPT !.threads[i].gen = setters.gen]
    /\ UNCHANGED <<exceptRaceVars, cfgVars>>

(* target[keys[-1]] = value: into the configuration when the thread's dict *)
(* is still the one the configuration holds, into a dict nothing refers to *)
(* otherwise                                                               *)
RaceAssign(i) ==
    /\ SetterAt(i, "assign")
    /\ config' = IF Setter(i).gen = setters.gen
                 THEN SetPath(config, Setter(i).keys, Setter(i).value).m
                 ELSE config
    /\ setters' = Moved(i, "open")
    /\ UNCHANGED <<exceptRaceVars, cfg_file, default_config, saved_doc,
                   cfg_pc, shared>>

(* open(self.config_path, 'w') *)
RaceOpen(i) ==
    /\ SetterAt(i, "open")
    /\ cfg_file' = CfgFile("corrupt", JNull)
    /\ setters' = Moved(i, "dump")
    /\ UNCHANGED <<exceptRaceVars, default_config, config, saved_doc, cfg_pc,
                   shared>>

(* json.dump(config, f, ...) *)
RaceDump(i) ==
    /\ SetterAt(i, "dump")
    /\ setters' = [Moved(i, "close") EXCEPT
                     !.threads[i].buffer = ToJson(PyDict(config))]
    /\ UNCHANGED <<exceptRaceVars, cfgVars>>

(* leaving the with block closes the file; set returns *)
RaceClose(i) ==
    /\ SetterAt(i, "close")
    /\ cfg_file' = WrittenOver(cfg_file, Setter(i).buffer)
    /\ setters' = Moved(i, "returned")
    /\ UNCHANGED <<exceptRaceVars, default_config, config, saved_doc, cfg_pc,
                   shared>>

InitRace ==
    /\ DlIdle
    /\ concurrent_downloads = 1
    /\ ManyIdle
    /\ HistIdle
    /\ CfgIdle
    /\ OtherIdle

NextRace ==
    \/ cfg_pc = "none" /\ NewConfig
    \/ \E i \in Threads :
         \/ \E call \in RaceCalls : RaceSet(i, call)
         \/ RaceTest(i)
         \/ RaceCreate(i)
         \/ RaceDescend(i)
         \/ RaceAssign(i)
         \/ RaceOpen(i)
         \/ RaceDump(i)
         \/ RaceClose(i)

SpecRace == InitRace /\ [][NextRace]_vars

(* the value the calls leave at keys: that of the call itself, or of       *)
(* another call to the same key                                            *)
WrittenTo(keys) == { Setter(j).value : j \in { t \in Threads : Setter(t).keys = keys } }

(* C26: once two or more concurrent set calls have all returned, the file  *)
(* is one complete document equal to the in-memory configuration, and the  *)
(* configuration holds every call's update (for calls to one key, the      *)
(* value of one of them)                                                   *)
C26_ConcurrentSetsSerialized ==
    (\A i \in Threads : SetterAt(i, "returned")) =>
        /\ cfg_file = CfgFile("json", ToJson(PyDict(config)))
        /\ \A i \in Threads :
             get(config, Setter(i).keys, PyNone) \in WrittenTo(Setter(i).keys)

(* C28: the default configuration document is never modified: once the     *)
(* Config object exists, default_config equals the document __init__       *)
(* builds, at every nesting level, whatever was loaded and set             *)
C28_DefaultsNeverModified ==
    cfg_pc # "none" => default_config = DefaultConfig

-----------------------------------------------------------------------------
(* VideoDownloader(config) with config None or a dict of overrides *)

(* dict.update: every key of other is assigned, whole value by whole value *)
Update(target, other) ==
    [k \in DOMAIN target \cup DOMAIN other |->
       IF k \in DOMAIN other THEN other[k] ELSE target[k]]

(* the config arguments tried: None (the empty dict here; 'if config' is   *)
(* false for both), the dict of youtube_simple.py, the dict of the module  *)
(* docstring, and one that sets a cookie file                              *)
DictArgs ==
    { EmptyMap,
      [download_path |-> PyStr("/cwd")],
      [download_path |-> PyStr("/my/downloads"),
       youtube |-> PyDict([embed_metadata |-> PyBool(TRUE)])],
      [youtube |-> PyDict([cookies_file |-> PyStr("c.txt")])] }

(* Path(self.config.get(key)) raises TypeError unless the value is a str *)
PathRaises(c, key) == get(c, << key >>, PyNone).t # "str"

(* __init__: Config() is loaded from the default path, the dict is merged  *)
(* in with dict.update, and the download and temp directories are made     *)
Construct(arg) ==
    /\ cfg_pc = "none"
    /\ downloader.pc = "none"
    /\ LET l == load_config(cfg_file, DefaultConfig)
           c == Update(l.config, arg)
       IN /\ config' = c
          /\ default_config' = l.default_config
          /\ cfg_file' = l.file
          /\ shared' = SharedAfterLoad(cfg_file, DefaultConfig) \ DOMAIN arg
          /\ cfg_pc' = "loaded"
          /\ downloader' =
               IF PathRaises(c, "download_path") \/ PathRaises(c, "temp_path")
               THEN [arg |-> arg, exc |-> "TypeError", pc |-> "raised",
                     pre |-> cfg_file]
               ELSE [arg |-> arg, exc |-> "", pc |-> "constructed",
                     pre |-> cfg_file]
    /\ UNCHANGED <<exceptCtorVars, saved_doc>>

InitConstruct ==
    /\ DlIdle
    /\ concurrent_downloads = 1
    /\ ManyIdle
    /\ HistIdle
    /\ cfg_file \in PersistedFiles
    /\ default_config = EmptyMap
    /\ config = EmptyMap
    /\ saved_doc = EmptyMap
    /\ cfg_pc = "none"
    /\ shared = {}
    /\ OtherIdle

NextConstruct ==
    \E arg \in DictArgs : Construct(arg)

SpecConstruct == InitConstruct /\ [][NextConstruct]_vars

(* the configuration a Config object holds after loading the file that was *)
(* there before the construction                                           *)
LoadedBefore == load_config(downloader.pre, DefaultConfig).config

(* C30: a VideoDownloader constructed with a partial dict holds the given  *)
(* values at the given keys and, at every other key, the value the loaded  *)
(* configuration had, the other keys of a partially given sub-map          *)
(* included; a configuration file that existed is left unchanged           *)
C30_PartialDictOverridesOnlyGiven ==
    (downloader.pc = "constructed" /\ downloader.arg # EmptyMap) =>
        /\ \A k \in DOMAIN LoadedBefore :
             /\ k \in DOMAIN config
             /\ k \notin DOMAIN downloader.arg => config[k] = LoadedBefore[k]
             /\ (k \in DOMAIN downloader.arg /\ IsDict(downloader.arg[k])
                   /\ IsDict(LoadedBefore[k])) =>
                  /\ IsDict(config[k])
                  /\ \A j \in DOMAIN LoadedBefore[k].m :
                       /\ j \in DOMAIN config[k].m
                       /\ config[k].m[j] =
                            IF j \in DOMAIN downloader.arg[k].m
                            THEN downloader.arg[k].m[j]
                            ELSE LoadedBefore[k].m[j]
        /\ \A k \in DOMAIN downloader.arg :
             ~IsDict(downloader.arg[k]) => config[k] = downloader.arg[k]
        /\ downloader.pre.state # "absent" => cfg_file = downloader.pre

====
